---- MODULE Spec2Model ----
(***************************************************************************)
(* WorkSchedulerV2 (src/app.py): the 4-week shift generation engine        *)
(* generate_4_week_schedule, the leave synchronisation                     *)
(* sync_timeoff_to_assignments and the records they read and write.        *)
(*                                                                         *)
(* Dates are integers counted in days from the baseline Thursday           *)
(* 2025-09-18 (date 0).  A week is identified by its index k: it starts on *)
(* date 7*k.  Shift labels are the strings of the source, written with an  *)
(* ASCII hyphen in place of the en dash.  An optional value (None in the    *)
(* source) is the empty set, a present value v is the set {v}.              *)
(***************************************************************************)
EXTENDS Integers, Sequences, FiniteSets, TLC

\* ------------------------------------------------------------------------
\* Bounds of the model
\* ------------------------------------------------------------------------
NumWorkers == 3
MaxBaseWeek == 1

\* ------------------------------------------------------------------------
\* Program constants
\* ------------------------------------------------------------------------
DaysPerWeek == 7
HorizonWeeks == 4
FrontDeskDefaultMax == 5
ShuttleDefaultMax == 4
FrontDeskPerVariant == 2
BaselineWeekday == 3
RyanRank == 10000
UnlistedRank == 9999

TIME_OFF_LABEL == "TIME OFF"

SENIORITY_ORDER ==
    << "Cindy", "KC", "Ryan", "Emilyn", "Christian", "Troy",
       "Brian", "Tristan", "Terry", "Jordan", "Abdi", "Sato" >>

BREAKFAST_SHIFTS ==
    << "Set", TIME_OFF_LABEL, "5AM-12PM", "6AM-12PM", "7AM-12PM" >>

FRONT_DESK_SHIFTS ==
    << "Set", TIME_OFF_LABEL,
       "AM (6:00AM-2:00PM)", "AM (6:15AM-2:15PM)",
       "PM (2:00PM-10:00PM)", "PM (2:15PM-10:15PM)",
       "Audit (10:00PM-6:00AM)", "Audit (10:15PM-6:15AM)" >>

SHUTTLE_SHIFTS ==
    << "Set", TIME_OFF_LABEL,
       "AM (3:30AM-11:30AM)", "Midday (10:30AM-6:30PM)",
       "PM (5:30PM-1:30AM)", "Crew (5:45PM-1:45AM)" >>

\* The Front Desk pass: (variant, [earlier stagger, later stagger]).
FD_VARIANTS ==
    << [variant |-> "AM",
        opts |-> << "AM (6:00AM-2:00PM)", "AM (6:15AM-2:15PM)" >>],
       [variant |-> "PM",
        opts |-> << "PM (2:00PM-10:00PM)", "PM (2:15PM-10:15PM)" >>],
       [variant |-> "Audit",
        opts |-> << "Audit (10:00PM-6:00AM)", "Audit (10:15PM-6:15AM)" >>] >>

\* The Breakfast Bar pass: its three labels, in order.
BB_PASS_SHIFTS == << "5AM-12PM", "6AM-12PM", "7AM-12PM" >>

\* The Shuttle pass: its four labels, in order.
SH_PASS_VARIANTS ==
    << "AM (3:30AM-11:30AM)", "Midday (10:30AM-6:30PM)",
       "PM (5:30PM-1:30AM)", "Crew (5:45PM-1:45AM)" >>

Sections == {"Breakfast Bar", "Front Desk", "Shuttle"}

\* ------------------------------------------------------------------------
\* Helpers on sequences, strings and dates
\* ------------------------------------------------------------------------
Range(seq) == {seq[i] : i \in 1..Len(seq)}

Min(a, b) == IF a <= b THEN a ELSE b

\* The leading word of a label: what str.startswith tests against.
LeadWord(label) ==
    CASE label \in {"AM", "AM (6:00AM-2:00PM)", "AM (6:15AM-2:15PM)",
                    "AM (3:30AM-11:30AM)"} -> "AM"
      [] label \in {"PM", "PM (2:00PM-10:00PM)", "PM (2:15PM-10:15PM)",
                    "PM (5:30PM-1:30AM)"} -> "PM"
      [] label \in {"Audit", "Audit (10:00PM-6:00AM)",
                    "Audit (10:15PM-6:15AM)"} -> "Audit"
      [] label = "Midday (10:30AM-6:30PM)" -> "Midday"
      [] label = "Crew (5:45PM-1:45AM)" -> "Crew"
      [] OTHER -> label

\* label.startswith(prefix), for the prefixes AM, PM, Audit, Midday, Crew.
StartsWith(label, prefix) == LeadWord(label) = prefix

\* date.weekday(): 0 = Monday; date 0 is a Thursday.
Weekday(dte) == (dte + BaselineWeekday) % DaysPerWeek

\* daterange(start, 7) of week k.
WeekDays(k) == (DaysPerWeek * k)..(DaysPerWeek * k + DaysPerWeek - 1)

\* The week a date belongs to.
WeekOf(dte) == dte \div DaysPerWeek

\* An ascending sequence of the integers of a finite set.
RECURSIVE SortedSeq(_)
SortedSeq(S) ==
    IF S = {} THEN << >>
    ELSE LET m == CHOOSE x \in S : \A y \in S : x <= y
         IN << m >> \o SortedSeq(S \ {m})

\* The index of name in SENIORITY_ORDER (0-based), or {} when absent.
SeniorityIndex(name) ==
    {i - 1 : i \in {j \in 1..Len(SENIORITY_ORDER) : SENIORITY_ORDER[j] = name}}

\* ------------------------------------------------------------------------
\* State
\* ------------------------------------------------------------------------
VARIABLES
    employees,              \* Employee rows: id -> record
    employee_roles,         \* EmployeeRole rows: [employee_id, section]
    employee_availability,  \* EmployeeAvailability rows
    timeoff,                \* TimeOff rows
    weeks,                  \* Week rows, by week index
    assignments,            \* Assignment rows: <<employee_id, date>> -> record
    pc,                     \* position of the generation request
    base_week,              \* start_week_id of the running generation
    week_offset,            \* loop variable of generate_4_week_schedule
    day,                    \* position in daterange(wk.start_date, 7)
    slot,                   \* position in the variants of the current pass
    pool,                   \* pool of the current pass and date
    assigned_counts,        \* assigned_counts of the current week
    last_token_per_role,    \* last_token_per_role of the current week
    reserved_fd_by_date,    \* reserved_fd_by_date of the current week
    avail_idx,              \* availability index built when the run starts
    emp_info,               \* emp_info built when the run starts
    emp_name,               \* emp_name built when the run starts
    fd_emp_ids,             \* employees_for_section("Front Desk")
    bb_emp_ids,             \* employees_for_section("Breakfast Bar")
    sh_emp_ids,             \* employees_for_section("Shuttle")
    log,                    \* the last slot written to log.txt
    response                \* the last JSON reply of /assign

dbVars == << employees, employee_roles, employee_availability, timeoff, weeks >>
snapVars == << avail_idx, emp_info, emp_name, fd_emp_ids, bb_emp_ids, sh_emp_ids >>
weekVars == << assigned_counts, last_token_per_role, reserved_fd_by_date >>
vars == << employees, employee_roles, employee_availability, timeoff, weeks,
           assignments, pc, base_week, week_offset, day, slot, pool,
           assigned_counts, last_token_per_role, reserved_fd_by_date,
           avail_idx, emp_info, emp_name, fd_emp_ids, bb_emp_ids, sh_emp_ids,
           log, response >>

\* ------------------------------------------------------------------------
\* The stored records the model starts from
\* ------------------------------------------------------------------------
Workers == 1..NumWorkers

\* Employee names by id.
Names == << "Cindy", "Ryan", "Abdi", "Sato", "Alex", "Taylor" >>

AllDays == 0..(DaysPerWeek - 1)

\* Staff profiles: primary section, secondary sections, preferences and the
\* (day_of_week, shift_label) pairs ticked on the availability form.
FdAllWeek ==
    [section |-> "Front Desk", secondary |-> {},
     preferred_shift |-> {}, seniority |-> {},
     preferred_shifts_per_week |-> {}, max_shifts_per_week |-> {},
     avail |-> AllDays \X {"AM", "PM", "Audit"}]

FdRest ==
    [section |-> "Front Desk", secondary |-> {"Breakfast Bar"},
     preferred_shift |-> {"PM"}, seniority |-> {2},
     preferred_shifts_per_week |-> {1}, max_shifts_per_week |-> {},
     avail |-> {<<2, "PM">>, <<3, "AM">>, <<3, "Audit">>,
                <<4, "PM">>, <<4, "Audit">>}
               \cup (AllDays \X {"5AM-12PM"})]

ShBreakfast ==
    [section |-> "Shuttle", secondary |-> {"Breakfast Bar"},
     preferred_shift |-> {}, seniority |-> {1},
     preferred_shifts_per_week |-> {}, max_shifts_per_week |-> {},
     avail |-> ({5, 6, 0, 1, 2} \X {"6AM-12PM"})
               \cup {<<5, "Midday (10:30AM-6:30PM)">>}]

ShRest ==
    [section |-> "Shuttle", secondary |-> {},
     preferred_shift |-> {}, seniority |-> {},
     preferred_shifts_per_week |-> {}, max_shifts_per_week |-> {},
     avail |-> {<<2, "Crew (5:45PM-1:45AM)">>,
                <<3, "AM (3:30AM-11:30AM)">>,
                <<3, "Midday (10:30AM-6:30PM)">>,
                <<3, "PM (5:30PM-1:30AM)">>,
                <<4, "AM (3:30AM-11:30AM)">>,
                <<4, "Midday (10:30AM-6:30PM)">>}]

BbCapped ==
    [section |-> "Breakfast Bar", secondary |-> {"Shuttle"},
     preferred_shift |-> {}, seniority |-> {},
     preferred_shifts_per_week |-> {}, max_shifts_per_week |-> {2},
     avail |-> {<<3, "5AM-12PM">>, <<3, "AM (3:30AM-11:30AM)">>,
                <<6, "PM (5:30PM-1:30AM)">>,
                <<0, "Midday (10:30AM-6:30PM)">>}]

NoAvailability ==
    [section |-> "Front Desk", secondary |-> {},
     preferred_shift |-> {}, seniority |-> {},
     preferred_shifts_per_week |-> {}, max_shifts_per_week |-> {},
     avail |-> {}]

\* The profiles employee i is drawn from.
ProfilesOf(i) ==
    CASE i = 1 -> {FdAllWeek, FdRest}
      [] i = 2 -> {FdAllWeek, ShBreakfast, BbCapped}
      [] i = 3 -> {FdAllWeek, ShRest, NoAvailability}
      [] OTHER -> {FdAllWeek}

\* The leave requests on file: none, or one request for the dates 6..8
\* (the last day of week 0 and the first two days of week 1).
LeaveChoices ==
    {{}} \cup
    {{[id |-> 1, name |-> n, from_date |-> 6, to_date |-> 8, approved |-> a]} :
        n \in {Names[1], Names[3]}, a \in BOOLEAN}

\* ------------------------------------------------------------------------
\* Leave requests
\* ------------------------------------------------------------------------
\* has_approved_timeoff(name, dte, s)
HasApprovedTimeoff(name, dte) ==
    \E t \in timeoff :
        /\ t.name = name
        /\ t.approved
        /\ t.from_date <= dte
        /\ t.to_date >= dte

\* A leave check that only sees approved requests.
HasAnyTimeoff_ApprovedOnly(name, dte) == HasApprovedTimeoff(name, dte)

\* has_any_timeoff(name, dte, s)
HasAnyTimeoff(name, dte) ==
    \E t \in timeoff :
        /\ t.name = name
        /\ t.from_date <= dte
        /\ t.to_date >= dte

\* A synchronisation that writes nothing.
SyncTimeoffToAssignments_Skip(asg, k) == asg

\* sync_timeoff_to_assignments(week_id, s), as a function of the
\* Assignment rows asg: the rows afterwards.
SyncTimeoffToAssignments(asg, k) ==
    [r \in DOMAIN asg |->
        IF /\ r[1] \in DOMAIN employees
           /\ r[2] \in WeekDays(k)
           /\ HasApprovedTimeoff(employees[r[1]].name, r[2])
           /\ asg[r].value # TIME_OFF_LABEL
        THEN [asg[r] EXCEPT !.value = TIME_OFF_LABEL]
        ELSE asg[r]]

\* ------------------------------------------------------------------------
\* Availability
\* ------------------------------------------------------------------------
\* _build_availability_index(s): employee_id -> {(day_of_week, shift_label)}
BuildAvailabilityIndex ==
    [e \in {ea.employee_id : ea \in employee_availability} |->
        {<< ea.day_of_week, ea.shift_label >> :
            ea \in {x \in employee_availability : x.employee_id = e}}]

\* _fd_variant(label), the definition in force (the second one).
FdVariant(label) ==
    IF StartsWith(label, "AM") THEN "AM"
    ELSE IF StartsWith(label, "PM") THEN "PM"
    ELSE IF StartsWith(label, "Audit") THEN "Audit"
    ELSE label

\* An availability check that treats a missing index entry as available.
IsAvailable_OpenWorld(emp_id, role, shift_label, dte, idx) ==
    IF emp_id \notin DOMAIN idx \/ idx[emp_id] = {} THEN TRUE
    ELSE IF role = "Front Desk"
         THEN << Weekday(dte), FdVariant(shift_label) >> \in idx[emp_id]
         ELSE << Weekday(dte), shift_label >> \in idx[emp_id]

\* _is_available(emp_id, role, shift_label, dte, avail_idx)
IsAvailable(emp_id, role, shift_label, dte, idx) ==
    IF emp_id \notin DOMAIN idx \/ idx[emp_id] = {} THEN FALSE
    ELSE IF role = "Front Desk"
         THEN << Weekday(dte), FdVariant(shift_label) >> \in idx[emp_id]
         ELSE << Weekday(dte), shift_label >> \in idx[emp_id]

\* _pref_token(role, label)
PrefToken(role, label) ==
    IF role = "Front Desk" THEN FdVariant(label) ELSE label

\* _effective_max_for_role(emp_info, eid, role): {} is None.
EffectiveMaxForRole(info, eid, role) ==
    IF info[eid].max_per_week # {} THEN info[eid].max_per_week
    ELSE IF role = "Front Desk" THEN {FrontDeskDefaultMax}
    ELSE IF role = "Shuttle" THEN {ShuttleDefaultMax}
    ELSE {}

\* The value of the one-element set that stands for an optional value.
TheValue(opt) == CHOOSE v \in opt : TRUE

\* The cap test with > in place of >=.
MaxReached_OffByOne(eid, role) ==
    LET maxw == EffectiveMaxForRole(emp_info, eid, role)
    IN maxw # {} /\ assigned_counts[eid] > TheValue(maxw)

\* maxw is not None and assigned_counts[eid] >= maxw
MaxReached(eid, role) ==
    LET maxw == EffectiveMaxForRole(emp_info, eid, role)
    IN maxw # {} /\ assigned_counts[eid] >= TheValue(maxw)

\* employees_for_section(name): primary and secondary ids, deduplicated.
EmployeesForSection(name) ==
    SortedSeq({e \in DOMAIN employees : employees[e].section = name}
              \cup {er.employee_id :
                      er \in {x \in employee_roles : x.section = name}})

\* emp_info as built at the start of generate_4_week_schedule.
BuildEmpInfo ==
    [e \in DOMAIN employees |->
        [role |-> employees[e].section,
         seniority |-> IF employees[e].seniority = {} THEN 0
                       ELSE TheValue(employees[e].seniority),
         preferred_shift |-> employees[e].preferred_shift,
         pref_per_week |-> employees[e].preferred_shifts_per_week,
         max_per_week |-> employees[e].max_shifts_per_week]]

\* emp_name as built at the start of generate_4_week_schedule.
BuildEmpName == [e \in DOMAIN employees |-> employees[e].name]

\* emp_name.get(eid, '')
NameOf(eid) == IF eid \in DOMAIN emp_name THEN emp_name[eid] ELSE ""

\* ------------------------------------------------------------------------
\* Rest rule and ranking
\* ------------------------------------------------------------------------
\* The Assignment row of (eid, dte) exists and has the value "Set".
IsSet(asg, eid, dte) ==
    << eid, dte >> \in DOMAIN asg /\ asg[<< eid, dte >>].value = "Set"

\* A rest rule that allows everything.
RestOk_Always(eid, dte, role, label) == TRUE

\* A rest rule that looks back only inside the week of dte.
RestOk_SameWeekOnly(eid, dte, role, label) ==
    LET prev == << eid, dte - 1 >> IN
    IF \/ prev \notin DOMAIN assignments
       \/ WeekOf(dte - 1) # WeekOf(dte)
       \/ assignments[prev].value \in {"", "Set", TIME_OFF_LABEL}
    THEN TRUE
    ELSE LET pv == assignments[prev].value IN
         IF role = "Front Desk" /\ StartsWith(label, "AM") /\ StartsWith(pv, "PM")
         THEN FALSE
         ELSE IF role = "Front Desk" /\ StartsWith(label, "PM")
                 /\ StartsWith(pv, "Audit")
         THEN FALSE
         ELSE IF role = "Shuttle" /\ StartsWith(label, "AM")
                 /\ (StartsWith(pv, "PM") \/ StartsWith(pv, "Crew"))
         THEN FALSE
         ELSE IF role = "Shuttle" /\ StartsWith(label, "Midday")
                 /\ StartsWith(pv, "Crew")
         THEN FALSE
         ELSE TRUE

\* rest_ok(eid, dte, role, label)
RestOk(eid, dte, role, label) ==
    LET prev == << eid, dte - 1 >> IN
    IF \/ prev \notin DOMAIN assignments
       \/ assignments[prev].value \in {"", "Set", TIME_OFF_LABEL}
    THEN TRUE
    ELSE LET pv == assignments[prev].value IN
         IF role = "Front Desk" /\ StartsWith(label, "AM") /\ StartsWith(pv, "PM")
         THEN FALSE
         ELSE IF role = "Front Desk" /\ StartsWith(label, "PM")
                 /\ StartsWith(pv, "Audit")
         THEN FALSE
         ELSE IF role = "Shuttle" /\ StartsWith(label, "AM")
                 /\ (StartsWith(pv, "PM") \/ StartsWith(pv, "Crew"))
         THEN FALSE
         ELSE IF role = "Shuttle" /\ StartsWith(label, "Midday")
                 /\ StartsWith(pv, "Crew")
         THEN FALSE
         ELSE TRUE

\* last_token_per_role.get((eid, role)): {} is None.
LastToken(eid, role) ==
    IF << eid, role >> \in DOMAIN last_token_per_role
    THEN last_token_per_role[<< eid, role >>]
    ELSE {}

\* A key that puts the running count before the other criteria.
KeyFn_CountFirst(eid, role, label) ==
    LET prefw == emp_info[eid].pref_per_week
        under_pref == prefw # {} /\ assigned_counts[eid] < TheValue(prefw)
        want == emp_info[eid].preferred_shift
        preferred_match == want # {} /\ PrefToken(role, label) = TheValue(want)
        last_tok == LastToken(eid, role)
        consistent == last_tok # {} /\ TheValue(last_tok) = PrefToken(role, label)
    IN << assigned_counts[eid],
          IF under_pref THEN 0 ELSE 1,
          IF preferred_match THEN 0 ELSE 1,
          IF consistent THEN 0 ELSE 1,
          0 - emp_info[eid].seniority >>

\* key_fn(eid) of pick_best
KeyFn(eid, role, label) ==
    LET prefw == emp_info[eid].pref_per_week
        under_pref == prefw # {} /\ assigned_counts[eid] < TheValue(prefw)
        want == emp_info[eid].preferred_shift
        preferred_match == want # {} /\ PrefToken(role, label) = TheValue(want)
        last_tok == LastToken(eid, role)
        consistent == last_tok # {} /\ TheValue(last_tok) = PrefToken(role, label)
    IN << IF under_pref THEN 0 ELSE 1,
          IF preferred_match THEN 0 ELSE 1,
          IF consistent THEN 0 ELSE 1,
          0 - emp_info[eid].seniority,
          assigned_counts[eid] >>

\* Tuple comparison a < b of two keys.
RECURSIVE TupleLess(_, _, _)
TupleLess(a, b, i) ==
    IF i > Len(a) THEN FALSE
    ELSE IF a[i] < b[i] THEN TRUE
    ELSE IF a[i] > b[i] THEN FALSE
    ELSE TupleLess(a, b, i + 1)

\* ranked[0] of sorted(filtered, key=key_fn): the first element of
\* filtered whose key no other element undercuts (the sort is stable).
FirstRanked(filtered, role, label) ==
    LET minimal(i) ==
            \A j \in 1..Len(filtered) :
                ~TupleLess(KeyFn(filtered[j], role, label),
                           KeyFn(filtered[i], role, label), 1)
        best == CHOOSE i \in 1..Len(filtered) :
                    minimal(i) /\ \A j \in 1..(i - 1) : ~minimal(j)
    IN filtered[best]

\* A pick_best that falls back on the first candidate when its filters
\* leave nobody.
PickBest_Fallback(candidates, role, label, dte) ==
    LET keep(eid) == ~MaxReached(eid, role) /\ RestOk(eid, dte, role, label)
        filtered == SelectSeq(candidates, keep)
    IN IF candidates = << >> THEN {}
       ELSE IF filtered = << >> THEN {candidates[1]}
       ELSE {FirstRanked(filtered, role, label)}

\* pick_best(candidates, role, label), with current_loop_date = dte:
\* {} is None.
PickBest(candidates, role, label, dte) ==
    LET keep(eid) == ~MaxReached(eid, role) /\ RestOk(eid, dte, role, label)
        filtered == SelectSeq(candidates, keep)
    IN IF filtered = << >> THEN {}
       ELSE {FirstRanked(filtered, role, label)}

\* _seniority_rank(eid) of the Front Desk pass
SeniorityRank(eid) ==
    LET name == NameOf(eid) IN
    IF name = "Ryan" THEN RyanRank
    ELSE IF SeniorityIndex(name) # {} THEN TheValue(SeniorityIndex(name))
    ELSE UnlistedRank

\* ------------------------------------------------------------------------
\* Initial state: the database as init_db_once leaves it
\* ------------------------------------------------------------------------
NoSlot == [role |-> "", dte |-> 0, label |-> "", candidates |-> << >>,
           picks |-> << >>]

EmptyMap == [x \in {} |-> {}]

\* No JSON reply sent yet.
NoResponse ==
    [status |-> 0, ok |-> FALSE, error |-> "", code |-> "", value |-> ""]

Init ==
    /\ \E prof \in [Workers -> UNION {ProfilesOf(i) : i \in Workers}] :
          /\ \A i \in Workers : prof[i] \in ProfilesOf(i)
          /\ employees =
                [i \in Workers |->
                    [name |-> Names[i],
                     section |-> prof[i].section,
                     preferred_shift |-> prof[i].preferred_shift,
                     seniority |-> prof[i].seniority,
                     preferred_shifts_per_week |->
                         prof[i].preferred_shifts_per_week,
                     max_shifts_per_week |-> prof[i].max_shifts_per_week]]
          /\ employee_roles =
                UNION {{[employee_id |-> i, section |-> sec] :
                          sec \in prof[i].secondary} : i \in Workers}
          /\ employee_availability =
                UNION {{[employee_id |-> i, day_of_week |-> av[1],
                         shift_label |-> av[2], allowed |-> TRUE] :
                          av \in prof[i].avail} : i \in Workers}
    /\ timeoff \in LeaveChoices
    /\ weeks = {0}
    /\ assignments =
          [r \in Workers \X WeekDays(0) |->
              [value |-> IF HasApprovedTimeoff(Names[r[1]], r[2])
                         THEN TIME_OFF_LABEL ELSE "Set",
               dismissed_timeoff |-> FALSE]]
    /\ pc = "idle"
    /\ base_week = 0
    /\ week_offset = 0
    /\ day = 0
    /\ slot = 1
    /\ pool = << >>
    /\ assigned_counts = EmptyMap
    /\ last_token_per_role = EmptyMap
    /\ reserved_fd_by_date = EmptyMap
    /\ avail_idx = EmptyMap
    /\ emp_info = EmptyMap
    /\ emp_name = EmptyMap
    /\ fd_emp_ids = << >>
    /\ bb_emp_ids = << >>
    /\ sh_emp_ids = << >>
    /\ log = NoSlot
    /\ response = NoResponse

\* ------------------------------------------------------------------------
\* generate_4_week_schedule
\* ------------------------------------------------------------------------
\* wk of the current loop iteration, and the date of the current slot.
CurWeek == base_week + week_offset
CurDate == DaysPerWeek * CurWeek + day

\* Entry: the start week exists; build the availability index, emp_info,
\* emp_name and the three capability lists.
Generate(b) ==
    /\ pc = "idle"
    /\ b \in weeks
    /\ b <= MaxBaseWeek
    /\ base_week' = b
    /\ week_offset' = 0
    /\ avail_idx' = BuildAvailabilityIndex
    /\ emp_info' = BuildEmpInfo
    /\ emp_name' = BuildEmpName
    /\ fd_emp_ids' = EmployeesForSection("Front Desk")
    /\ bb_emp_ids' = EmployeesForSection("Breakfast Bar")
    /\ sh_emp_ids' = EmployeesForSection("Shuttle")
    /\ pc' = "reset"
    /\ day' = 0
    /\ slot' = 1
    /\ pool' = << >>
    /\ log' = NoSlot
    /\ UNCHANGED << response, dbVars, assignments, weekVars >>

\* _ensure_week_and_assignments(s, start_d): the rows afterwards.
EnsureWeekAndAssignments(asg, k) ==
    [r \in DOMAIN asg \cup ((DOMAIN employees) \X WeekDays(k)) |->
        IF r \in DOMAIN asg THEN asg[r]
        ELSE [value |-> "Set", dismissed_timeoff |-> FALSE]]

\* An incremental reset that leaves rows with a concrete shift alone.
ResetWeekRows_KeepShifts(asg, k) ==
    [r \in DOMAIN asg |->
        IF r[2] \in WeekDays(k) /\ asg[r].value \in {"Set", TIME_OFF_LABEL}
        THEN [value |-> "Set", dismissed_timeoff |-> FALSE]
        ELSE asg[r]]

\* A reset without the week filter: every row goes back to "Set".
ResetWeekRows_AllRows(asg, k) ==
    [r \in DOMAIN asg |-> [value |-> "Set", dismissed_timeoff |-> FALSE]]

\* update(Assignment).where(week_id == wk.id).values("Set", 0)
ResetWeekRows(asg, k) ==
    [r \in DOMAIN asg |->
        IF r[2] \in WeekDays(k)
        THEN [value |-> "Set", dismissed_timeoff |-> FALSE]
        ELSE asg[r]]

\* A week loop that carries the running counts over from the week before.
ResetWeek_KeepCounts ==
    /\ pc = "reset"
    /\ weeks' = weeks \cup {CurWeek}
    /\ assignments' =
          ResetWeekRows(EnsureWeekAndAssignments(assignments, CurWeek), CurWeek)
    /\ assigned_counts' = [e \in DOMAIN emp_info |->
                              IF e \in DOMAIN assigned_counts
                              THEN assigned_counts[e] ELSE 0]
    /\ last_token_per_role' = EmptyMap
    /\ reserved_fd_by_date' = EmptyMap
    /\ pc' = "fd"
    /\ day' = 0
    /\ slot' = 1
    /\ pool' = fd_emp_ids
    /\ UNCHANGED << response, employees, employee_roles, employee_availability, timeoff,
                    base_week, week_offset, snapVars, log >>

\* Top of the week loop: ensure the week and its rows, reset them, and
\* start the week's counters.
ResetWeek ==
    /\ pc = "reset"
    /\ weeks' = weeks \cup {CurWeek}
    /\ assignments' =
          ResetWeekRows(EnsureWeekAndAssignments(assignments, CurWeek), CurWeek)
    /\ assigned_counts' = [e \in DOMAIN emp_info |-> 0]
    /\ last_token_per_role' = EmptyMap
    /\ reserved_fd_by_date' = EmptyMap
    /\ pc' = "fd"
    /\ day' = 0
    /\ slot' = 1
    /\ pool' = fd_emp_ids
    /\ UNCHANGED << response, employees, employee_roles, employee_availability, timeoff,
                    base_week, week_offset, snapVars, log >>

\* Loop control after a slot: the next variant of the day, the next day
\* with a fresh pool, or the next pass.
Advance(nSlots, newPool, fullPool, nextPc, nextPool) ==
    IF slot < nSlots
    THEN /\ slot' = slot + 1
         /\ day' = day
         /\ pc' = pc
         /\ pool' = newPool
    ELSE IF day < DaysPerWeek - 1
    THEN /\ slot' = 1
         /\ day' = day + 1
         /\ pc' = pc
         /\ pool' = fullPool
    ELSE /\ slot' = 1
         /\ day' = 0
         /\ pc' = nextPc
         /\ pool' = nextPool

\* seq without the elements of the set S.
Without(seq, S) == SelectSeq(seq, LAMBDA e : e \notin S)

\* Rows asg with value written for the picks and the dismissed flag set
\* for the dismissed.
WriteSlot(asg, dte, labelOf, picked, dismissed) ==
    [r \in DOMAIN asg |->
        IF r[2] = dte /\ r[1] \in picked
        THEN [asg[r] EXCEPT !.value = labelOf[r[1]]]
        ELSE IF r[2] = dte /\ r[1] \in dismissed
        THEN [asg[r] EXCEPT !.dismissed_timeoff = TRUE]
        ELSE asg[r]]

\* assigned_counts[eid] += 1 for the picks.
CountPicks(counts, picked) ==
    [e \in DOMAIN counts |-> IF e \in picked THEN counts[e] + 1 ELSE counts[e]]

\* last_token_per_role[(eid, role)] = token for the picks.
RecordToken(last, picked, role, token) ==
    [k \in DOMAIN last \cup {<< e, role >> : e \in picked} |->
        IF k[2] = role /\ k[1] \in picked THEN {token} ELSE last[k]]

\* ------------------------------------------------------------------------
\* Front Desk pass
\* ------------------------------------------------------------------------
\* The candidate test of the Front Desk pass: still "Set", available,
\* rested, without a leave request, under the weekly maximum.
FdAccepts(eid, dte, variant) ==
    /\ IsSet(assignments, eid, dte)
    /\ IsAvailable(eid, "Front Desk", variant, dte, avail_idx)
    /\ RestOk(eid, dte, "Front Desk", variant)
    /\ ~HasAnyTimeoff(NameOf(eid), dte)
    /\ ~MaxReached(eid, "Front Desk")

\* Dropped for a leave request after passing the earlier checks:
\* _mark_dismissed is called.
FdDismisses(eid, dte, variant) ==
    /\ IsSet(assignments, eid, dte)
    /\ IsAvailable(eid, "Front Desk", variant, dte, avail_idx)
    /\ RestOk(eid, dte, "Front Desk", variant)
    /\ HasAnyTimeoff(NameOf(eid), dte)

\* A pick loop that stops after the first pick.
RECURSIVE FdPickLoop_OnePick(_, _, _, _, _)
FdPickLoop_OnePick(cand, picks, variant, dte, n) ==
    IF n = 0 \/ Len(picks) >= 1 THEN picks
    ELSE LET pick == PickBest(Without(cand, Range(picks)),
                              "Front Desk", variant, dte)
         IN IF pick = {} THEN picks
            ELSE FdPickLoop_OnePick(cand, Append(picks, TheValue(pick)),
                                    variant, dte, n - 1)

\* for slot_i in range(2): pick_best over the candidates not yet picked.
RECURSIVE FdPickLoop(_, _, _, _, _)
FdPickLoop(cand, picks, variant, dte, n) ==
    IF n = 0 THEN picks
    ELSE LET pick == PickBest(Without(cand, Range(picks)),
                              "Front Desk", variant, dte)
         IN IF pick = {} THEN picks
            ELSE FdPickLoop(cand, Append(picks, TheValue(pick)),
                            variant, dte, n - 1)

\* The picks left in the order they were picked.
SortBySeniorityRank_None(seq) == seq

\* picks.sort(key=_seniority_rank): a stable sort.
RECURSIVE SortBySeniorityRank(_)
SortBySeniorityRank(seq) ==
    IF seq = << >> THEN << >>
    ELSE LET least(i) == \A j \in 1..Len(seq) :
                             SeniorityRank(seq[i]) <= SeniorityRank(seq[j])
             first == CHOOSE i \in 1..Len(seq) :
                          least(i) /\ \A j \in 1..(i - 1) : ~least(j)
         IN << seq[first] >> \o SortBySeniorityRank(Without(seq, {seq[first]}))

\* The stagger label by position alone, without the exception for a lone
\* "Ryan".
FdLabel_NoException(picks, i, opts) ==
    IF i <= Len(opts) THEN opts[i] ELSE opts[Len(opts)]

\* Every pick gets the earlier stagger label.
FdLabel_FirstStagger(picks, i, opts) == opts[1]

\* The stagger label of the i-th pick (i counts from 1).
FdLabel(picks, i, opts) ==
    IF Len(picks) = 1 /\ NameOf(picks[i]) = "Ryan" /\ Len(opts) > 1
    THEN opts[2]
    ELSE IF i <= Len(opts) THEN opts[i] ELSE opts[Len(opts)]

\* One (date, variant) iteration of the Front Desk pass.
FrontDeskSlot ==
    /\ pc = "fd"
    /\ LET dte == CurDate
           variant == FD_VARIANTS[slot].variant
           opts == FD_VARIANTS[slot].opts
           cand == SelectSeq(pool, LAMBDA e : FdAccepts(e, dte, variant))
           dismissed == {e \in Range(pool) : FdDismisses(e, dte, variant)}
           picks == SortBySeniorityRank(
                        FdPickLoop(cand, << >>, variant, dte,
                                   FrontDeskPerVariant))
           labelOf == [e \in Range(picks) |->
                          FdLabel(picks,
                                  CHOOSE i \in 1..Len(picks) : picks[i] = e,
                                  opts)]
       IN /\ assignments' =
                WriteSlot(assignments, dte, labelOf, Range(picks), dismissed)
          /\ assigned_counts' = CountPicks(assigned_counts, Range(picks))
          /\ last_token_per_role' =
                RecordToken(last_token_per_role, Range(picks), "Front Desk",
                            PrefToken("Front Desk", variant))
          /\ log' = [role |-> "Front Desk", dte |-> dte, label |-> variant,
                     candidates |-> cand, picks |-> picks]
          /\ Advance(Len(FD_VARIANTS), Without(pool, Range(picks)),
                     fd_emp_ids, "reserve", << >>)
    /\ UNCHANGED << response, dbVars, base_week, week_offset, reserved_fd_by_date,
                    snapVars >>

\* ------------------------------------------------------------------------
\* Reservation step
\* ------------------------------------------------------------------------
\* fd_counts[v] of fd_missing_on and of the reservation loop.
FdCount(asg, dte, v) ==
    Cardinality({e \in Range(fd_emp_ids) :
                    /\ << e, dte >> \in DOMAIN asg
                    /\ asg[<< e, dte >>].value \notin {"", "Set", TIME_OFF_LABEL}
                    /\ StartsWith(asg[<< e, dte >>].value, v)})

\* fd_missing_on(day)
FdMissingOn(asg, dte) ==
    \E v \in {"AM", "PM", "Audit"} : FdCount(asg, dte, v) < FrontDeskPerVariant

\* reserved_fd_by_date after the reservation loop over week k.
ReservedFdByDate(asg, k) ==
    LET reserve(d) == {e \in Range(fd_emp_ids) : IsSet(asg, e, d)}
    IN [d \in {x \in WeekDays(k) : FdMissingOn(asg, x) /\ reserve(x) # {}} |->
           reserve(d)]

ReserveFrontDesk ==
    /\ pc = "reserve"
    /\ reserved_fd_by_date' = ReservedFdByDate(assignments, CurWeek)
    /\ pc' = "bb"
    /\ day' = 0
    /\ slot' = 1
    /\ pool' = bb_emp_ids
    /\ UNCHANGED << response, dbVars, assignments, base_week, week_offset,
                    assigned_counts, last_token_per_role, snapVars, log >>

\* A withholding test that lets everybody through.
WithheldForFrontDesk_Never(eid, dte) == FALSE

\* The two skips at the top of the Breakfast Bar and Shuttle candidate
\* loops: reserved for Front Desk on this date, or Front Desk is missing
\* today and the employee is Front-Desk-capable.
WithheldForFrontDesk(eid, dte) ==
    \/ dte \in DOMAIN reserved_fd_by_date /\ eid \in reserved_fd_by_date[dte]
    \/ FdMissingOn(assignments, dte) /\ eid \in Range(fd_emp_ids)

\* ------------------------------------------------------------------------
\* Breakfast Bar pass
\* ------------------------------------------------------------------------
\* The candidate test of the Breakfast Bar pass.
BbAccepts(eid, dte, shift) ==
    /\ ~WithheldForFrontDesk(eid, dte)
    /\ IsSet(assignments, eid, dte)
    /\ ~HasAnyTimeoff(NameOf(eid), dte)
    /\ IsAvailable(eid, "Breakfast Bar", shift, dte, avail_idx)
    /\ RestOk(eid, dte, "Breakfast Bar", shift)

\* Dropped for a leave request; marked only if otherwise available and
\* rested for this shift.
BbDismisses(eid, dte, shift) ==
    /\ ~WithheldForFrontDesk(eid, dte)
    /\ IsSet(assignments, eid, dte)
    /\ HasAnyTimeoff(NameOf(eid), dte)
    /\ IsAvailable(eid, "Breakfast Bar", shift, dte, avail_idx)
    /\ RestOk(eid, dte, "Breakfast Bar", shift)

\* One (date, shift) iteration of the Breakfast Bar pass.
BreakfastBarSlot ==
    /\ pc = "bb"
    /\ LET dte == CurDate
           shift == BB_PASS_SHIFTS[slot]
           cand == SelectSeq(pool, LAMBDA e : BbAccepts(e, dte, shift))
           dismissed == {e \in Range(pool) : BbDismisses(e, dte, shift)}
           pick == PickBest(cand, "Breakfast Bar", shift, dte)
           labelOf == [e \in pick |-> shift]
       IN /\ assignments' = WriteSlot(assignments, dte, labelOf, pick, dismissed)
          /\ assigned_counts' = CountPicks(assigned_counts, pick)
          /\ last_token_per_role' =
                RecordToken(last_token_per_role, pick, "Breakfast Bar",
                            PrefToken("Breakfast Bar", shift))
          /\ log' = [role |-> "Breakfast Bar", dte |-> dte, label |-> shift,
                     candidates |-> cand, picks |-> SortedSeq(pick)]
          /\ Advance(Len(BB_PASS_SHIFTS), Without(pool, pick),
                     bb_emp_ids, "sh", sh_emp_ids)
    /\ UNCHANGED << response, dbVars, base_week, week_offset, reserved_fd_by_date,
                    snapVars >>

\* ------------------------------------------------------------------------
\* Shuttle pass
\* ------------------------------------------------------------------------
\* The candidate test of the Shuttle pass without the "still Set" check.
ShAccepts_NoSetCheck(eid, dte, v) ==
    /\ ~WithheldForFrontDesk(eid, dte)
    /\ << eid, dte >> \in DOMAIN assignments
    /\ ~HasAnyTimeoff(NameOf(eid), dte)
    /\ IsAvailable(eid, "Shuttle", v, dte, avail_idx)
    /\ RestOk(eid, dte, "Shuttle", v)

\* The candidate test of the Shuttle pass.
ShAccepts(eid, dte, v) ==
    /\ ~WithheldForFrontDesk(eid, dte)
    /\ IsSet(assignments, eid, dte)
    /\ ~HasAnyTimeoff(NameOf(eid), dte)
    /\ IsAvailable(eid, "Shuttle", v, dte, avail_idx)
    /\ RestOk(eid, dte, "Shuttle", v)

\* Dropped for a leave request; marked if rested for this variant.
ShDismisses(eid, dte, v) ==
    /\ ~WithheldForFrontDesk(eid, dte)
    /\ IsSet(assignments, eid, dte)
    /\ HasAnyTimeoff(NameOf(eid), dte)
    /\ RestOk(eid, dte, "Shuttle", v)

\* One (date, variant) iteration of the Shuttle pass.
ShuttleSlot ==
    /\ pc = "sh"
    /\ LET dte == CurDate
           v == SH_PASS_VARIANTS[slot]
           cand == SelectSeq(pool, LAMBDA e : ShAccepts(e, dte, v))
           dismissed == {e \in Range(pool) : ShDismisses(e, dte, v)}
           pick == PickBest(cand, "Shuttle", v, dte)
           labelOf == [e \in pick |-> v]
       IN /\ assignments' = WriteSlot(assignments, dte, labelOf, pick, dismissed)
          /\ assigned_counts' = CountPicks(assigned_counts, pick)
          /\ last_token_per_role' =
                RecordToken(last_token_per_role, pick, "Shuttle",
                            PrefToken("Shuttle", v))
          /\ log' = [role |-> "Shuttle", dte |-> dte, label |-> v,
                     candidates |-> cand, picks |-> SortedSeq(pick)]
          /\ Advance(Len(SH_PASS_VARIANTS), Without(pool, pick),
                     sh_emp_ids, "sync", << >>)
    /\ UNCHANGED << response, dbVars, base_week, week_offset, reserved_fd_by_date,
                    snapVars >>

\* ------------------------------------------------------------------------
\* End of the week loop and of the run
\* ------------------------------------------------------------------------
\* A week loop that ends without synchronising approved leave.
SyncWeek_NoSync ==
    /\ pc = "sync"
    /\ assignments' = assignments
    /\ IF week_offset < HorizonWeeks - 1
       THEN /\ week_offset' = week_offset + 1
            /\ pc' = "reset"
       ELSE /\ week_offset' = week_offset
            /\ pc' = "done"
    /\ UNCHANGED << response, dbVars, base_week, day, slot, pool, weekVars, snapVars,
                    log >>

\* sync_timeoff_to_assignments(wk.id, s) closes the week; the loop goes on
\* to the next week or the run ends.
SyncWeek ==
    /\ pc = "sync"
    /\ assignments' = SyncTimeoffToAssignments(assignments, CurWeek)
    /\ IF week_offset < HorizonWeeks - 1
       THEN /\ week_offset' = week_offset + 1
            /\ pc' = "reset"
       ELSE /\ week_offset' = week_offset
            /\ pc' = "done"
    /\ UNCHANGED << response, dbVars, base_week, day, slot, pool, weekVars, snapVars,
                    log >>

\* The request returns (the redirect of /generate).
GenerateReturn ==
    /\ pc = "done"
    /\ pc' = "idle"
    /\ UNCHANGED << response, dbVars, assignments, base_week, week_offset, day, slot,
                    pool, weekVars, snapVars, log >>

\* ------------------------------------------------------------------------
\* Other requests
\* ------------------------------------------------------------------------
\* /week/<id>/next: create the next week with "Set" rows and synchronise
\* approved leave into it.
NextWeek(k) ==
    /\ pc = "idle"
    /\ k \in weeks
    /\ k + 1 \notin weeks
    /\ k + 1 <= MaxBaseWeek
    /\ weeks' = weeks \cup {k + 1}
    /\ assignments' =
          SyncTimeoffToAssignments(
              [r \in DOMAIN assignments \cup ((DOMAIN employees) \X WeekDays(k + 1)) |->
                  IF r \in DOMAIN assignments THEN assignments[r]
                  ELSE [value |-> "Set", dismissed_timeoff |-> FALSE]],
              k + 1)
    /\ UNCHANGED << response, employees, employee_roles, employee_availability, timeoff,
                    pc, base_week, week_offset, day, slot, pool, weekVars,
                    snapVars, log >>

\* A call of sync_timeoff_to_assignments on an existing week outside a
\* generation run (as made by the employee update requests).
SyncRequest(k) ==
    /\ pc = "idle"
    /\ k \in weeks
    /\ assignments' = SyncTimeoffToAssignments(assignments, k)
    /\ UNCHANGED << response, dbVars, pc, base_week, week_offset, day, slot, pool,
                    weekVars, snapVars, log >>

Next ==
    \/ \E b \in 0..MaxBaseWeek : Generate(b)
    \/ ResetWeek
    \/ FrontDeskSlot
    \/ ReserveFrontDesk
    \/ BreakfastBarSlot
    \/ ShuttleSlot
    \/ SyncWeek
    \/ GenerateReturn
    \/ \E k \in 0..MaxBaseWeek : NextWeek(k)
    \/ \E k \in 0..MaxBaseWeek : SyncRequest(k)

Spec == Init /\ [][Next]_vars

\* ------------------------------------------------------------------------
\* Coverage Analyzer: coverage_snapshot_db
\* ------------------------------------------------------------------------
CoverageFdThreshold == 2
CoverageShThreshold == 1
CoverageBbThreshold == 1
CoverageFdRequired == 6
CoverageShRequired == 4
CoverageBbRequired == 3

\* shift_variants, sh_variants and bb_variants of coverage_snapshot_db.
CovShiftVariants == << "AM", "PM", "Audit" >>
CovShVariants == << "AM", "Midday", "PM", "Crew" >>
CovBbVariants == << "5AM-12PM", "6AM-12PM", "7AM-12PM" >>

\* The rows of week k the loop does not skip (empty, "Set", TIME OFF).
CovRows(asg, k) ==
    {r \in DOMAIN asg :
        /\ r[2] \in WeekDays(k)
        /\ asg[r].value \notin {"", "Set", TIME_OFF_LABEL}}

\* The Front Desk variant a value is counted under ("" for none): the value
\* is in FRONT_DESK_SHIFTS and the if/elif chain on startswith.
CovFdVariant(value) ==
    IF value \notin Range(FRONT_DESK_SHIFTS) THEN ""
    ELSE IF StartsWith(value, "AM") THEN "AM"
    ELSE IF StartsWith(value, "PM") THEN "PM"
    ELSE IF StartsWith(value, "Audit") THEN "Audit"
    ELSE ""

\* value.startswith("PM (5:30PM"): of the labels in use only this one does.
StartsWithPmShuttle(value) == value = "PM (5:30PM-1:30AM)"

\* A Shuttle count that does not test the value against SHUTTLE_SHIFTS.
CovShVariant_AnyLabel(value) ==
    IF StartsWith(value, "AM") THEN "AM"
    ELSE IF StartsWith(value, "Midday") THEN "Midday"
    ELSE IF StartsWith(value, "PM") THEN "PM"
    ELSE IF StartsWith(value, "Crew") THEN "Crew"
    ELSE ""

\* The Shuttle variant a value is counted under ("" for none).
CovShVariant(value) ==
    IF value \notin Range(SHUTTLE_SHIFTS) THEN ""
    ELSE IF value = "AM (3:30AM-11:30AM)" THEN "AM"
    ELSE IF StartsWith(value, "Midday") THEN "Midday"
    ELSE IF StartsWithPmShuttle(value) THEN "PM"
    ELSE IF StartsWith(value, "Crew") THEN "Crew"
    ELSE ""

\* sum(f.values()) of a dict of numbers.
RECURSIVE SumValues(_)
SumValues(f) ==
    IF DOMAIN f = {} THEN 0
    ELSE LET x == CHOOSE y \in DOMAIN f : TRUE
         IN f[x] + SumValues([y \in DOMAIN f \ {x} |-> f[y]])

\* fd_label_counts[date][variant]: exact label -> number of rows, with a
\* key for every label that occurs.
CovFdLabelCounts(asg, k, dte, variant) ==
    LET rows == {r \in CovRows(asg, k) :
                    r[2] = dte /\ CovFdVariant(asg[r].value) = variant}
    IN [l \in {asg[r].value : r \in rows} |->
           Cardinality({r \in rows : asg[r].value = l})]

\* A duplicate test that does not look at the total.
CovDupAny_NoTotal(asg, k, dte) ==
    \E i \in 1..Len(CovShiftVariants) :
        LET exact == CovFdLabelCounts(asg, k, dte, CovShiftVariants[i])
        IN Cardinality({l \in DOMAIN exact : exact[l] > 0}) = 1

\* dup_any of a date: some variant has total >= 2 and distinct == 1.
CovDupAny(asg, k, dte) ==
    \E i \in 1..Len(CovShiftVariants) :
        LET exact == CovFdLabelCounts(asg, k, dte, CovShiftVariants[i])
            total == SumValues(exact)
            distinct == Cardinality({l \in DOMAIN exact : exact[l] > 0})
        IN total >= 2 /\ distinct = 1

\* coverage_snapshot_db(week_id): the eleven values it returns.
CoverageSnapshotDb(asg, k) ==
    LET rows == CovRows(asg, k)
        counts ==
            [d \in WeekDays(k) |->
                [v \in Range(CovShiftVariants) |->
                    Cardinality({r \in rows :
                        r[2] = d /\ CovFdVariant(asg[r].value) = v})]]
        sh_counts ==
            [d \in WeekDays(k) |->
                [v \in Range(CovShVariants) |->
                    Cardinality({r \in rows :
                        r[2] = d /\ CovShVariant(asg[r].value) = v})]]
        bb_counts ==
            [d \in WeekDays(k) |->
                [v \in Range(CovBbVariants) |->
                    Cardinality({r \in rows :
                        r[2] = d /\ asg[r].value = v})]]
    IN [total_counts |-> [d \in WeekDays(k) |-> SumValues(counts[d])],
        missing |->
            [d \in WeekDays(k) |->
                \E v \in Range(CovShiftVariants) :
                    counts[d][v] < CoverageFdThreshold],
        required |-> CoverageFdRequired,
        counts |-> counts,
        sh_missing |->
            [d \in WeekDays(k) |->
                \E v \in Range(CovShVariants) :
                    sh_counts[d][v] < CoverageShThreshold],
        sh_required |-> CoverageShRequired,
        sh_counts |-> sh_counts,
        bb_missing |->
            [d \in WeekDays(k) |->
                \E v \in Range(CovBbVariants) :
                    bb_counts[d][v] < CoverageBbThreshold],
        bb_required |-> CoverageBbRequired,
        bb_counts |-> bb_counts,
        fd_duplicates |-> [d \in WeekDays(k) |-> CovDupAny(asg, k, d)]]

\* ------------------------------------------------------------------------
\* Conflict Detector: double_booked_snapshot
\* ------------------------------------------------------------------------
\* emp_sections[eid]: the primary section and the EmployeeRole sections.
EmpSections(eid) ==
    {employees[eid].section} \cup
    {er.section : er \in {x \in employee_roles : x.employee_id = eid}}

\* multi_emp_ids: employees with more than one named section.
MultiEmpIds ==
    {e \in DOMAIN employees :
        Cardinality({n \in EmpSections(e) : n # ""}) > 1}

\* Label lists in which Breakfast Bar shares the Front Desk labels.
SectionShifts_Shared(name) ==
    IF name = "Breakfast Bar" THEN FRONT_DESK_SHIFTS \o BREAKFAST_SHIFTS
    ELSE IF name = "Front Desk" THEN FRONT_DESK_SHIFTS
    ELSE IF name = "Shuttle" THEN SHUTTLE_SHIFTS
    ELSE << >>

\* section_shifts(name)
SectionShifts(name) ==
    IF name = "Breakfast Bar" THEN BREAKFAST_SHIFTS
    ELSE IF name = "Front Desk" THEN FRONT_DESK_SHIFTS
    ELSE IF name = "Shuttle" THEN SHUTTLE_SHIFTS
    ELSE << >>

\* A count of the employee's sections that does not look at the value.
ActiveSections_AnyValue(eid, value) ==
    Cardinality({n \in EmpSections(eid) : n # ""})

\* active of (eid, value): the employee's sections whose list has the value.
ActiveSections(eid, value) ==
    Cardinality({n \in EmpSections(eid) :
                    n # "" /\ value \in Range(SectionShifts(n))})

\* double_booked_snapshot(week_id): the (date, name) pairs of the result.
DoubleBookedSnapshot(asg, k) ==
    IF MultiEmpIds = {} \/ k \notin weeks THEN {}
    ELSE {<< r[2], employees[r[1]].name >> :
            r \in {x \in DOMAIN asg :
                      /\ x[1] \in MultiEmpIds
                      /\ x[2] \in WeekDays(k)
                      /\ asg[x].value \notin {"", "Set", TIME_OFF_LABEL}
                      /\ ActiveSections(x[1], asg[x].value) > 1}}

\* ------------------------------------------------------------------------
\* Manual requests: /assign, /delete, /week/<id>/generate on a missing week
\* ------------------------------------------------------------------------
BaselineYear == 2025
BaselineMonth == 9
BaselineDay == 18

\* The Week row with the given id (ids count from 1), {} when there is none.
WeekById(week_id) == IF week_id - 1 \in weeks THEN {week_id - 1} ELSE {}

\* The Week row whose start_date is the baseline date.
BaselineWeekRow == IF 0 \in weeks THEN {0} ELSE {}

\* The week /assign works on: the given week_id when it is truthy (given
\* and not 0), otherwise the baseline week.  week_id is {} when the body
\* has none and {n} when it has the number n.
AssignWeek(week_id) ==
    IF week_id # {} /\ TheValue(week_id) # 0
    THEN WeekById(TheValue(week_id))
    ELSE BaselineWeekRow

\* y, m, d = map(int, date_key.split("-")); date(y, m, d): the fields of a
\* date key to a date of September of the baseline year, {} on an exception.
ParseDateKey(fields) ==
    IF Len(fields) # 3 THEN {}
    ELSE IF /\ fields[1] = BaselineYear
            /\ fields[2] = BaselineMonth
            /\ fields[3] \in 1..30
         THEN {fields[3] - BaselineDay}
         ELSE {}

\* A permission check that lets every employee through.
AssignAllowed_Anyone(eid, section) == TRUE

\* Permission check: primary in the section or an EmployeeRole row for it.
AssignAllowed(eid, section) ==
    \/ employees[eid].section = section
    \/ \E er \in employee_roles :
          er.employee_id = eid /\ er.section = section

\* The Assignment row of (week, employee, date), {} when there is none.
AssignRow(k, eid, dte) ==
    {r \in DOMAIN assignments : r = << eid, dte >> /\ dte \in WeekDays(k)}

\* An override test that never finds leave.
AssignBlocked_Never(name, dte) == FALSE

\* The override test of /assign.
AssignBlocked(name, dte) == HasApprovedTimeoff(name, dte)

\* A JSON error reply without coverage data.
ErrorReply(status, error) ==
    [status |-> status, ok |-> FALSE, error |-> error, code |-> "",
     value |-> ""]

\* /assign with the JSON body req.  The two replies that follow a write
\* also carry coverage_snapshot_db and double_booked_snapshot of the week,
\* computed from the rows as they are after the write; those fields are
\* CoverageSnapshotDb(assignments, k) and DoubleBookedSnapshot(assignments, k)
\* of the state after the step and are not stored a second time.
AssignHandler(req) ==
    /\ LET week == AssignWeek(req.week_id)
           emp == {e \in DOMAIN employees : employees[e].name = req.employee}
           dte == ParseDateKey(req.date)
       IN IF week = {}
          THEN /\ response' = ErrorReply(404, "Week not found")
               /\ assignments' = assignments
          ELSE IF req.section \notin Sections
          THEN /\ response' = ErrorReply(400, "Unknown section")
               /\ assignments' = assignments
          ELSE IF emp = {}
          THEN /\ response' = ErrorReply(400, "Unknown employee")
               /\ assignments' = assignments
          ELSE IF ~AssignAllowed(TheValue(emp), req.section)
          THEN /\ response' =
                    ErrorReply(400, "Employee not allowed for this section")
               /\ assignments' = assignments
          ELSE IF dte = {}
          THEN /\ response' = ErrorReply(400, "Bad date")
               /\ assignments' = assignments
          ELSE IF AssignRow(TheValue(week), TheValue(emp), TheValue(dte)) = {}
          THEN /\ response' = ErrorReply(404, "Assignment not found")
               /\ assignments' = assignments
          ELSE LET a == << TheValue(emp), TheValue(dte) >>
               IN IF AssignBlocked(req.employee, TheValue(dte))
                  THEN /\ assignments' =
                            [assignments EXCEPT ![a].value = TIME_OFF_LABEL]
                       /\ response' =
                            [status |-> 409, ok |-> FALSE,
                             error |-> "Approved time off",
                             code |-> "timeoff", value |-> TIME_OFF_LABEL]
                  ELSE /\ assignments' =
                            [assignments EXCEPT ![a].value = req.value]
                       /\ response' =
                            [status |-> 200, ok |-> TRUE, error |-> "",
                             code |-> "", value |-> ""]
    /\ UNCHANGED << dbVars, pc, base_week, week_offset, day, slot, pool,
                    weekVars, snapVars, log >>

\* /assign while no generation is running.
Assign(req) == pc = "idle" /\ AssignHandler(req)

\* /delete: every row of the baseline week back to "Set", not dismissed.
DeleteSchedule ==
    /\ pc = "idle"
    /\ 0 \in weeks
    /\ assignments' = ResetWeekRows(assignments, 0)
    /\ UNCHANGED << response, dbVars, pc, base_week, week_offset, day, slot,
                    pool, weekVars, snapVars, log >>

\* /week/<id>/generate for an id without Week row: generate_4_week_schedule
\* returns at once and the request redirects.
GenerateUnknownWeek(b) ==
    /\ pc = "idle"
    /\ b \notin weeks
    /\ UNCHANGED vars

\* The request bodies of /assign the model draws from.
AssignDateKey == << BaselineYear, BaselineMonth, BaselineDay + 6 >>
NoRowDateKey == << BaselineYear, BaselineMonth, BaselineDay + 7 >>
MalformedDateKey == << BaselineYear, BaselineMonth >>
UnknownWeekId == MaxBaseWeek + 2

AssignValues ==
    {"AM (6:00AM-2:00PM)", "AM (6:15AM-2:15PM)", "AM (3:30AM-11:30AM)",
     "5AM-12PM", "6AM-12PM", "7AM-12PM"}

\* Requests as the schedule page sends them (a label of the section's own
\* list), requests with a label of another section's list (the handler does
\* not compare value and section), and requests with an unknown week,
\* section or employee, a malformed date or a date without row.
AssignRequests ==
    UNION {[section : {sec}, employee : {Names[i] : i \in Workers},
            date : {AssignDateKey},
            value : Range(SectionShifts(sec)) \cap AssignValues,
            week_id : {{}}] : sec \in Sections}
    \cup
    [section : {"Shuttle"}, employee : {Names[2], Names[3]},
     date : {AssignDateKey}, value : {"7AM-12PM", "AM (6:00AM-2:00PM)"},
     week_id : {{1}}]
    \cup
    [section : {"Front Desk", "Pool"}, employee : {Names[1], "Nobody"},
     date : {AssignDateKey, NoRowDateKey, MalformedDateKey},
     value : {"AM (6:00AM-2:00PM)"},
     week_id : {{}, {0}, {1}, {UnknownWeekId}}]

\* The staff of the manual-request specification: a Front Desk employee
\* with Breakfast Bar as second section, a Breakfast Bar employee with
\* Shuttle as second section, and a Shuttle employee.
InitManual ==
    /\ Init
    /\ employees[1].seniority # {}
    /\ employees[2].section = "Breakfast Bar"
    /\ employees[3].section = "Shuttle"

NextManual ==
    \/ \E req \in AssignRequests : Assign(req)
    \/ DeleteSchedule
    \/ \E b \in 1..(MaxBaseWeek + 1) : GenerateUnknownWeek(b)

SpecManual == InitManual /\ [][NextManual]_vars

\* ------------------------------------------------------------------------
\* Vocabulary of the properties
\* ------------------------------------------------------------------------
\* The dates of the 4 weeks of the running (or last) generation.
HorizonWeekSet == {base_week + i : i \in 0..(HorizonWeeks - 1)}
HorizonDates == UNION {WeekDays(k) : k \in HorizonWeekSet}

HasRow(e, d) == << e, d >> \in DOMAIN assignments
Val(e, d) == assignments[<< e, d >>].value

Placeholders == {"Set", TIME_OFF_LABEL}
FdConcrete == Range(FRONT_DESK_SHIFTS) \ Placeholders
BbConcrete == Range(BREAKFAST_SHIFTS) \ Placeholders
ShConcrete == Range(SHUTTLE_SHIFTS) \ Placeholders

\* The two stagger labels of a Front Desk variant.
FdLabelsOf(variant) ==
    UNION {Range(FD_VARIANTS[i].opts) :
             i \in {j \in 1..Len(FD_VARIANTS) : FD_VARIANTS[j].variant = variant}}

\* The departments an employee is capable in, from the stored records.
CapableIn(e) ==
    {employees[e].section}
    \cup {er.section : er \in {x \in employee_roles : x.employee_id = e}}

\* Concrete shifts an employee holds in week k.
ShiftCount(e, k) ==
    Cardinality({d \in WeekDays(k) : HasRow(e, d) /\ Val(e, d) \notin Placeholders})

\* A stored availability entry of e for (weekday of d, token).
HasEntry(e, d, token) ==
    \E ea \in employee_availability :
        /\ ea.employee_id = e
        /\ ea.day_of_week = Weekday(d)
        /\ ea.shift_label = token

\* A stored leave request of e, approved or not, covers d.
Requested(e, d) ==
    \E t \in timeoff :
        /\ t.name = employees[e].name
        /\ d \in t.from_date..t.to_date

\* The slot the generation is about to process.
InSlotStep == pc \in {"fd", "bb", "sh"}

\* ------------------------------------------------------------------------
\* C1
\* ------------------------------------------------------------------------
\* C1: in every slot iteration of a generation run, every employee picked
\* for the slot was still "Set" on the slot's date, and every value other
\* than "Set" is left as it was: no generated shift is overwritten.
C1_NoSecondShift ==
    [][InSlotStep =>
         /\ \A e \in Range(log'.picks) :
               HasRow(e, CurDate) /\ Val(e, CurDate) = "Set"
         /\ \A r \in DOMAIN assignments :
               assignments[r].value # "Set" =>
                   /\ r \in DOMAIN assignments'
                   /\ assignments'[r].value = assignments[r].value]_vars

\* C1 witness: the Shuttle slot just processed passed over an employee who
\* is Shuttle-capable, available for that variant on that date and under
\* the weekly maximum, because the employee already holds a Breakfast Bar
\* shift on the date.
C1_Witness ==
    /\ log.role = "Shuttle"
    /\ pc \in {"sh", "sync"}
    /\ \E e \in Range(sh_emp_ids) :
          /\ HasRow(e, log.dte)
          /\ Val(e, log.dte) \in BbConcrete
          /\ IsAvailable(e, "Shuttle", log.label, log.dte, avail_idx)
          /\ ~MaxReached(e, "Shuttle")
          /\ ~HasAnyTimeoff(NameOf(e), log.dte)
          /\ log.picks = << >>

\* ------------------------------------------------------------------------
\* C2
\* ------------------------------------------------------------------------
\* The largest weekly cap among the departments an employee is capable in
\* ({} when one of them has none).
LargestCap(e) ==
    LET caps == {EffectiveMaxForRole(BuildEmpInfo, e, role) : role \in CapableIn(e)}
    IN IF {} \in caps THEN {}
       ELSE {CHOOSE c \in UNION caps : \A x \in UNION caps : x <= c}

\* C2 as stated: after a run, an employee's concrete shifts in a week of
\* the horizon never exceed max_shifts_per_week if set, otherwise the
\* default of the employee's department.
C2_Original ==
    pc = "done" =>
        \A e \in DOMAIN employees : \A k \in HorizonWeekSet :
            LET cap == EffectiveMaxForRole(BuildEmpInfo, e, employees[e].section)
            IN cap # {} => ShiftCount(e, k) <= TheValue(cap)

\* C2 amended: after a run, an employee's concrete shifts in a week of the
\* horizon never exceed max_shifts_per_week if set, otherwise the largest
\* default among the departments the employee is capable in (no bound when
\* Breakfast Bar is one of them).
C2_WeeklyCap ==
    pc = "done" =>
        \A e \in DOMAIN employees : \A k \in HorizonWeekSet :
            LargestCap(e) # {} => ShiftCount(e, k) <= TheValue(LargestCap(e))

\* C2 witness: after a run, an employee without a maximum of their own
\* holds exactly the Front Desk default of 5 shifts in a week although
\* available on all 7 days, and an employee with a maximum holds exactly
\* that many although available on more days.
C2_Witness ==
    /\ pc = "done"
    /\ \E e \in DOMAIN employees : \E k \in HorizonWeekSet :
          /\ employees[e].max_shifts_per_week = {}
          /\ CapableIn(e) = {"Front Desk"}
          /\ ShiftCount(e, k) = FrontDeskDefaultMax
          /\ \A d \in WeekDays(k) : HasEntry(e, d, "AM")
    /\ \E e \in DOMAIN employees : \E k \in HorizonWeekSet :
          /\ employees[e].max_shifts_per_week # {}
          /\ ShiftCount(e, k) = TheValue(employees[e].max_shifts_per_week)
          /\ Cardinality({d \in WeekDays(k) :
                            \E ea \in employee_availability :
                                /\ ea.employee_id = e
                                /\ ea.day_of_week = Weekday(d)})
                > ShiftCount(e, k)

\* ------------------------------------------------------------------------
\* C3
\* ------------------------------------------------------------------------
\* C3: after a run, for every employee and date d of the horizon (the
\* first day of a week included): no Front Desk AM label on d after a
\* Front Desk PM label on d-1, and no Front Desk PM label on d after a
\* Front Desk Audit label on d-1.
C3_FrontDeskRest ==
    pc = "done" =>
        \A e \in DOMAIN employees : \A d \in HorizonDates :
            (HasRow(e, d) /\ HasRow(e, d - 1)) =>
                /\ Val(e, d - 1) \in FdLabelsOf("PM") =>
                       Val(e, d) \notin FdLabelsOf("AM")
                /\ Val(e, d - 1) \in FdLabelsOf("Audit") =>
                       Val(e, d) \notin FdLabelsOf("PM")

\* C3 witness: after a run, an employee holds a Front Desk PM label on the
\* day before the horizon starts, has an availability entry for AM on the
\* first day of the horizon and no leave request there, and holds the
\* Audit variant on that day; the day after, with an entry for PM, the
\* employee holds Audit again.
C3_Witness ==
    /\ pc = "done"
    /\ \E e \in DOMAIN employees :
          LET d == DaysPerWeek * base_week IN
          /\ HasRow(e, d - 1)
          /\ Val(e, d - 1) \in FdLabelsOf("PM")
          /\ HasEntry(e, d, "AM")
          /\ ~HasAnyTimeoff(employees[e].name, d)
          /\ Val(e, d) \in FdLabelsOf("Audit")
          /\ HasEntry(e, d + 1, "PM")
          /\ Val(e, d + 1) \in FdLabelsOf("Audit")

\* ------------------------------------------------------------------------
\* C4
\* ------------------------------------------------------------------------
\* C4: after a run, for every employee and date d of the horizon: no
\* Shuttle AM label on d after a Shuttle PM or Crew label on d-1, and no
\* Shuttle Midday label on d after a Crew label on d-1.
C4_ShuttleRest ==
    pc = "done" =>
        \A e \in DOMAIN employees : \A d \in HorizonDates :
            (HasRow(e, d) /\ HasRow(e, d - 1)) =>
                /\ Val(e, d - 1) \in {"PM (5:30PM-1:30AM)", "Crew (5:45PM-1:45AM)"} =>
                       Val(e, d) # "AM (3:30AM-11:30AM)"
                /\ Val(e, d - 1) = "Crew (5:45PM-1:45AM)" =>
                       Val(e, d) # "Midday (10:30AM-6:30PM)"

\* C4 witness: after a run, an employee holds the Crew label on a date,
\* has availability entries for Shuttle AM and Midday on the next date,
\* which lies in the horizon, and holds Shuttle PM there; and holds
\* Midday, with an entry for AM, the day after that.
C4_Witness ==
    /\ pc = "done"
    /\ \E e \in DOMAIN employees : \E d \in HorizonDates :
          /\ HasRow(e, d - 1)
          /\ Val(e, d - 1) = "Crew (5:45PM-1:45AM)"
          /\ HasEntry(e, d, "AM (3:30AM-11:30AM)")
          /\ HasEntry(e, d, "Midday (10:30AM-6:30PM)")
          /\ Val(e, d) = "PM (5:30PM-1:30AM)"
          /\ HasEntry(e, d + 1, "AM (3:30AM-11:30AM)")
          /\ Val(e, d + 1) = "Midday (10:30AM-6:30PM)"

\* ------------------------------------------------------------------------
\* C5
\* ------------------------------------------------------------------------
\* C5: after a run, every date of the horizon covered by an approved leave
\* request of an employee has the value TIME OFF for that employee.
C5_ApprovedLeaveWins ==
    pc = "done" =>
        \A e \in DOMAIN employees : \A d \in HorizonDates :
            HasApprovedTimeoff(employees[e].name, d) =>
                HasRow(e, d) /\ Val(e, d) = TIME_OFF_LABEL

\* C5 witness: after a run, a Front Desk employee with an availability
\* entry for a date of the horizon that is covered by an approved leave
\* request has TIME OFF there.
C5_Witness ==
    /\ pc = "done"
    /\ \E e \in DOMAIN employees : \E d \in HorizonDates :
          /\ HasApprovedTimeoff(employees[e].name, d)
          /\ HasEntry(e, d, "AM")
          /\ employees[e].section = "Front Desk"
          /\ Val(e, d) = TIME_OFF_LABEL

\* ------------------------------------------------------------------------
\* C6
\* ------------------------------------------------------------------------
\* C6: in every state in which the program synchronises leave (between
\* requests and at the end of a week of a generation run, whatever
\* synchronisations and generated weeks came earlier), applying the leave
\* synchronisation to a stored week leaves every date of that week
\* covered by approved leave at TIME OFF, and applying it a second time
\* changes nothing.
C6_SyncIdempotent ==
    pc \in {"idle", "sync"} =>
    \A k \in weeks :
        LET once == SyncTimeoffToAssignments(assignments, k)
        IN /\ SyncTimeoffToAssignments(once, k) = once
           /\ \A e \in DOMAIN employees : \A d \in WeekDays(k) :
                  HasApprovedTimeoff(employees[e].name, d) =>
                      /\ << e, d >> \in DOMAIN once
                      /\ once[<< e, d >>].value = TIME_OFF_LABEL

\* C6 witness: a run that started at a week the next-week request had
\* created and synchronised is about to synchronise that week again. The
\* employee's approved leave covers a date of the week before, still at
\* TIME OFF, and a date of this week that the run has reset to "Set" and
\* the synchronisation has yet to overwrite.
C6_Witness ==
    /\ pc = "sync"
    /\ base_week > 0
    /\ week_offset = 0
    /\ \E e \in DOMAIN employees : \E d \in WeekDays(CurWeek) :
          /\ HasApprovedTimeoff(employees[e].name, d)
          /\ HasApprovedTimeoff(employees[e].name, d - 2)
          /\ WeekOf(d - 2) # CurWeek
          /\ Val(e, d - 2) = TIME_OFF_LABEL
          /\ Val(e, d) = "Set"
          /\ SyncTimeoffToAssignments(assignments, CurWeek) # assignments

\* ------------------------------------------------------------------------
\* C7
\* ------------------------------------------------------------------------
\* C7: after a run, no employee holds a concrete shift on a date of the
\* horizon that is covered by a leave request of theirs, approved or not.
C7_AnyLeaveSuppresses ==
    pc = "done" =>
        \A e \in DOMAIN employees : \A d \in HorizonDates :
            Requested(e, d) =>
                HasRow(e, d) /\ Val(e, d) \in Placeholders

\* C7 witness: after a run, an employee with an unapproved leave request
\* over a date of the horizon, and an availability entry for Front Desk
\* AM there, is still "Set" on that date and marked as dismissed for
\* leave, while the AM variant of that date has fewer than 2 holders.
C7_Witness ==
    /\ pc = "done"
    /\ \E e \in DOMAIN employees : \E d \in HorizonDates :
          /\ Requested(e, d)
          /\ \A t \in timeoff : ~t.approved
          /\ "Front Desk" \in CapableIn(e)
          /\ HasEntry(e, d, "AM")
          /\ Val(e, d) = "Set"
          /\ assignments[<< e, d >>].dismissed_timeoff
          /\ Cardinality({x \in DOMAIN employees :
                            Val(x, d) \in FdLabelsOf("AM")}) < FrontDeskPerVariant

\* ------------------------------------------------------------------------
\* C8
\* ------------------------------------------------------------------------
\* The availability token of a stored value: the base variant for a Front
\* Desk label, the label itself otherwise.
TokenOf(value) ==
    IF value \in FdLabelsOf("AM") THEN "AM"
    ELSE IF value \in FdLabelsOf("PM") THEN "PM"
    ELSE IF value \in FdLabelsOf("Audit") THEN "Audit"
    ELSE value

\* C8: after a run, every concrete shift an employee holds on a date of
\* the horizon is backed by an availability entry of theirs for (weekday
\* of the date, token of the shift); an employee without entries holds no
\* shift.
C8_ClosedWorld ==
    pc = "done" =>
        \A e \in DOMAIN employees : \A d \in HorizonDates :
            (HasRow(e, d) /\ Val(e, d) \notin Placeholders) =>
                HasEntry(e, d, TokenOf(Val(e, d)))

\* C8 witness: after a run, a Front Desk employee without any availability
\* entry is "Set" on every date of the horizon, while another employee
\* holds a Front Desk shift and a Front Desk variant is short on that date.
C8_Witness ==
    /\ pc = "done"
    /\ \E e \in DOMAIN employees :
          /\ employees[e].section = "Front Desk"
          /\ ~\E ea \in employee_availability : ea.employee_id = e
          /\ \A d \in HorizonDates : Val(e, d) = "Set"
          /\ \E x \in DOMAIN employees : \E d \in HorizonDates :
                /\ Val(x, d) \in FdConcrete
                /\ \E v \in {"AM", "PM", "Audit"} :
                      Cardinality({y \in DOMAIN employees :
                                     Val(y, d) \in FdLabelsOf(v)})
                          < FrontDeskPerVariant

\* ------------------------------------------------------------------------
\* C9
\* ------------------------------------------------------------------------
\* Some Front Desk variant has fewer than 2 holders on d.
FdShortOn(d) ==
    \E v \in {"AM", "PM", "Audit"} :
        Cardinality({e \in DOMAIN employees :
                        HasRow(e, d) /\ Val(e, d) \in FdLabelsOf(v)})
            < FrontDeskPerVariant

\* C9: after a run, on every date of the horizon on which some Front Desk
\* variant has fewer than 2 holders, no Front-Desk-capable employee
\* (primary or secondary) holds a Breakfast Bar or Shuttle shift.
C9_Reservation ==
    pc = "done" =>
        \A d \in HorizonDates :
            FdShortOn(d) =>
                \A e \in DOMAIN employees :
                    "Front Desk" \in CapableIn(e) =>
                        Val(e, d) \notin (BbConcrete \cup ShConcrete)

\* C9 witness: after a run, on a date where Front Desk is short, a
\* Front-Desk-capable employee with an availability entry for a Breakfast
\* Bar shift, no leave request and no weekly maximum there is still
\* "Set", and nobody holds that Breakfast Bar shift.
C9_Witness ==
    /\ pc = "done"
    /\ \E e \in DOMAIN employees : \E d \in HorizonDates :
          /\ FdShortOn(d)
          /\ CapableIn(e) = {"Front Desk", "Breakfast Bar"}
          /\ HasEntry(e, d, "5AM-12PM")
          /\ ~Requested(e, d)
          /\ EffectiveMaxForRole(BuildEmpInfo, e, "Breakfast Bar") = {}
          /\ Val(e, d) = "Set"
          /\ \A x \in DOMAIN employees : Val(x, d) # "5AM-12PM"

\* ------------------------------------------------------------------------
\* C10
\* ------------------------------------------------------------------------
\* e is eligible for a slot of department role with availability token
\* token on date d: capable, still "Set", available, rested, without a
\* leave request, under the weekly maximum, and (outside Front Desk) not
\* kept back for a short Front Desk.
Eligible(e, d, role, token) ==
    /\ role \in CapableIn(e)
    /\ HasRow(e, d)
    /\ Val(e, d) = "Set"
    /\ HasEntry(e, d, token)
    /\ RestOk(e, d, role, token)
    /\ ~Requested(e, d)
    /\ LET cap == EffectiveMaxForRole(BuildEmpInfo, e, role)
       IN cap = {} \/ ShiftCount(e, WeekOf(d)) < TheValue(cap)
    /\ role # "Front Desk" => ~(FdShortOn(d) /\ "Front Desk" \in CapableIn(e))

\* The number of eligible employees.
EligibleCount(d, role, token) ==
    Cardinality({e \in DOMAIN employees : Eligible(e, d, role, token)})

\* The number of employees the step gives one of the labels on date d.
Received(d, labels) ==
    Cardinality({e \in DOMAIN employees :
                    /\ HasRow(e, d)
                    /\ Val(e, d) \notin labels
                    /\ assignments'[<< e, d >>].value \in labels})

\* C10: a Front Desk slot with k eligible employees gives its variant to
\* exactly min(2, k) of them; a Breakfast Bar or Shuttle slot with k
\* eligible employees gives its label to exactly min(1, k) of them.
C10_GreedyFill ==
    [][/\ pc = "fd" =>
            Received(CurDate, FdLabelsOf(FD_VARIANTS[slot].variant))
                = Min(FrontDeskPerVariant,
                      EligibleCount(CurDate, "Front Desk",
                                    FD_VARIANTS[slot].variant))
       /\ pc = "bb" =>
            Received(CurDate, {BB_PASS_SHIFTS[slot]})
                = Min(1, EligibleCount(CurDate, "Breakfast Bar",
                                       BB_PASS_SHIFTS[slot]))
       /\ pc = "sh" =>
            Received(CurDate, {SH_PASS_VARIANTS[slot]})
                = Min(1, EligibleCount(CurDate, "Shuttle",
                                       SH_PASS_VARIANTS[slot]))]_vars

\* C10 witness: a Front Desk slot had three candidates and two of them
\* were picked; the third is still "Set".
C10_Witness ==
    /\ log.role = "Front Desk"
    /\ Len(log.candidates) = 3
    /\ Len(log.picks) = FrontDeskPerVariant
    /\ \A e \in Range(log.picks) : Val(e, log.dte) \in FdLabelsOf(log.label)
    /\ \E e \in Range(log.candidates) : Val(e, log.dte) = "Set"

\* ------------------------------------------------------------------------
\* C11
\* ------------------------------------------------------------------------
\* The place of an employee in the seniority list; employees the list does
\* not name come after all it names.
ListPlace(e) ==
    LET idx == SeniorityIndex(employees[e].name)
    IN IF idx = {} THEN Len(SENIORITY_ORDER) ELSE TheValue(idx)

\* The employees a Front Desk step gives a label of its variant.
FdReceivers ==
    {e \in DOMAIN employees :
        /\ HasRow(e, CurDate)
        /\ Val(e, CurDate) = "Set"
        /\ assignments'[<< e, CurDate >>].value
              \in FdLabelsOf(FD_VARIANTS[slot].variant)}

\* C11: whenever a Front Desk slot selects two employees, neither of them
\* the exception "Ryan", the one placed earlier in the seniority list
\* receives the earlier stagger label and the other the later one.
C11_SeniorEarlierStagger ==
    [][pc = "fd" =>
          \A e1, e2 \in FdReceivers :
              (/\ employees[e1].name # "Ryan"
               /\ employees[e2].name # "Ryan"
               /\ ListPlace(e1) < ListPlace(e2)) =>
                  /\ assignments'[<< e1, CurDate >>].value
                        = FD_VARIANTS[slot].opts[1]
                  /\ assignments'[<< e2, CurDate >>].value
                        = FD_VARIANTS[slot].opts[2]]_vars

\* C11 witness: a Front Desk slot picked two employees, neither of them
\* "Ryan"; both hold a label of the slot's variant, the two labels differ,
\* and one of the two is placed earlier in the seniority list.
C11_Witness ==
    /\ log.role = "Front Desk"
    /\ Len(log.picks) = 2
    /\ \E e1, e2 \in Range(log.picks) :
          /\ employees[e1].name # "Ryan"
          /\ employees[e2].name # "Ryan"
          /\ ListPlace(e1) < ListPlace(e2)
          /\ Val(e1, log.dte) \in FdConcrete
          /\ Val(e2, log.dte) \in FdConcrete
          /\ Val(e1, log.dte) # Val(e2, log.dte)
          /\ TokenOf(Val(e1, log.dte)) = log.label
          /\ TokenOf(Val(e2, log.dte)) = log.label

\* ------------------------------------------------------------------------
\* C12
\* ------------------------------------------------------------------------
\* The earlier stagger label of each Front Desk variant.
EarlierStaggers == {FD_VARIANTS[i].opts[1] : i \in 1..Len(FD_VARIANTS)}

\* C12: after a run, "Ryan" holds no earlier stagger label on any date of
\* the horizon.
C12_RyanLaterStagger ==
    pc = "done" =>
        \A e \in DOMAIN employees : \A d \in HorizonDates :
            (employees[e].name = "Ryan" /\ HasRow(e, d)) =>
                Val(e, d) \notin EarlierStaggers

\* C12 witness: after a run, "Ryan" holds the later stagger of a variant
\* alone on one date of the horizon, and shares a variant with another
\* employee, who holds the earlier stagger, on another.
C12_Witness ==
    /\ pc = "done"
    /\ \E e \in DOMAIN employees :
          /\ employees[e].name = "Ryan"
          /\ \E d \in HorizonDates :
                /\ Val(e, d) \in FdConcrete
                /\ \A x \in DOMAIN employees \ {e} :
                      Val(x, d) \in FdConcrete =>
                          TokenOf(Val(x, d)) # TokenOf(Val(e, d))
          /\ \E d \in HorizonDates : \E x \in DOMAIN employees \ {e} :
                /\ Val(e, d) \in FdConcrete
                /\ Val(x, d) \in EarlierStaggers
                /\ TokenOf(Val(x, d)) = TokenOf(Val(e, d))

\* ------------------------------------------------------------------------
\* C13
\* ------------------------------------------------------------------------
\* The number of employees eligible for the slot the run is about to
\* process.
SlotEligibleCount ==
    IF pc = "fd"
    THEN EligibleCount(CurDate, "Front Desk", FD_VARIANTS[slot].variant)
    ELSE IF pc = "bb"
    THEN EligibleCount(CurDate, "Breakfast Bar", BB_PASS_SHIFTS[slot])
    ELSE EligibleCount(CurDate, "Shuttle", SH_PASS_VARIANTS[slot])

\* C13: a slot iteration that finds no eligible employee changes no value
\* of any row, and the run goes on to another slot, to the reservation
\* step or to the synchronisation that ends the week.
C13_EmptySlotUnfilled ==
    [][(InSlotStep /\ SlotEligibleCount = 0) =>
          /\ DOMAIN assignments' = DOMAIN assignments
          /\ \A r \in DOMAIN assignments :
                assignments'[r].value = assignments[r].value
          /\ pc' \in {"fd", "reserve", "bb", "sh", "sync"}
          /\ << pc', day', slot' >> # << pc, day, slot >>]_vars

\* C13 witness: a run has ended; its last slot had no candidate and
\* picked nobody; on the first date of the horizon nobody holds the
\* Breakfast Bar label "7AM-12PM" and an employee capable in Breakfast Bar
\* is still "Set"; and an employee holds a shift in the last week of the
\* horizon.
C13_Witness ==
    /\ pc = "done"
    /\ log.role = "Shuttle"
    /\ log.candidates = << >>
    /\ log.picks = << >>
    /\ LET d == DaysPerWeek * base_week IN
          /\ \A e \in DOMAIN employees : Val(e, d) # "7AM-12PM"
          /\ \E e \in DOMAIN employees :
                "Breakfast Bar" \in CapableIn(e) /\ Val(e, d) = "Set"
    /\ \E e \in DOMAIN employees :
          \E d \in WeekDays(base_week + HorizonWeeks - 1) :
              Val(e, d) \notin Placeholders

\* ------------------------------------------------------------------------
\* C14: coverage counts and missing flags
\* ------------------------------------------------------------------------
\* The employees holding one of the labels on date d.
HoldersOf(d, labels) ==
    {e \in DOMAIN employees : HasRow(e, d) /\ Val(e, d) \in labels}

\* The concrete Shuttle labels of a Shuttle variant.
ShLabelsOf(variant) == {l \in ShConcrete : LeadWord(l) = variant}

C15_DuplicateStagger ==
    \A k \in weeks :
        LET cov == CoverageSnapshotDb(assignments, k) IN
        \A d \in WeekDays(k) :
            cov.fd_duplicates[d] <=>
                \E v \in {"AM", "PM", "Audit"} :
                    \E l \in FdLabelsOf(v) :
                        /\ Cardinality(HoldersOf(d, {l})) >= 2
                        /\ HoldersOf(d, FdLabelsOf(v) \ {l}) = {}

\* C15 witness: on the last date of the baseline week two employees hold
\* the AM label of 6:00 and nobody the AM label of 6:15; the flag of that
\* date is set and the flag of the first date is not.
C15_Witness ==
    LET cov == CoverageSnapshotDb(assignments, 0)
        d == DaysPerWeek - 1
    IN /\ Cardinality(HoldersOf(d, {"AM (6:00AM-2:00PM)"})) = 2
       /\ HoldersOf(d, {"AM (6:15AM-2:15PM)"}) = {}
       /\ cov.fd_duplicates[d]
       /\ ~cov.fd_duplicates[0]

\* ------------------------------------------------------------------------
\* C17: double-booked report
\* ------------------------------------------------------------------------
\* The label list of a department.
DeptLabels(sec) ==
    CASE sec = "Breakfast Bar" -> Range(BREAKFAST_SHIFTS)
      [] sec = "Front Desk" -> Range(FRONT_DESK_SHIFTS)
      [] sec = "Shuttle" -> Range(SHUTTLE_SHIFTS)
      [] OTHER -> {}

\* C17: for every week, employee and date of the week, the employee's name
\* is in the double-booked report of the date exactly when the employee is
\* capable in more than one department, holds a value that is neither
\* "Set" nor TIME OFF, and at least two of the employee's departments list
\* that value.
C17_DoubleBooked ==
    \A k \in weeks :
        LET report == DoubleBookedSnapshot(assignments, k) IN
        \A e \in DOMAIN employees :
            \A d \in WeekDays(k) :
                << d, employees[e].name >> \in report <=>
                    /\ Cardinality(CapableIn(e)) > 1
                    /\ HasRow(e, d)
                    /\ Val(e, d) \notin Placeholders
                    /\ Cardinality({sec \in CapableIn(e) :
                                       Val(e, d) \in DeptLabels(sec)}) >= 2

\* C17 witness: two employees capable in two departments each hold a
\* concrete label on the last date of the baseline week, one a label of
\* one of its departments and one a label of a department it is not
\* capable in; neither is reported.
C17_Witness ==
    LET d == DaysPerWeek - 1 IN
    /\ \E e \in DOMAIN employees :
          /\ Cardinality(CapableIn(e)) > 1
          /\ Val(e, d) \notin Placeholders
          /\ \E sec \in CapableIn(e) : Val(e, d) \in DeptLabels(sec)
    /\ \E e \in DOMAIN employees :
          /\ Cardinality(CapableIn(e)) > 1
          /\ Val(e, d) \notin Placeholders
          /\ \A sec \in CapableIn(e) : Val(e, d) \notin DeptLabels(sec)
    /\ DoubleBookedSnapshot(assignments, 0) = {}

\* ------------------------------------------------------------------------
\* C18: manual assign without capability
\* ------------------------------------------------------------------------
\* The employees with the given name.
Named(name) == {e \in DOMAIN employees : employees[e].name = name}

\* The reply is an explicit rejection: ok is false, an error text is
\* given and the status is a client error.
Rejected(r) == ~r.ok /\ r.error # "" /\ r.status \in 400..499

\* C18: a step of /assign whose employee exists and is capable in the
\* requested department neither as primary nor as second department is
\* answered with a rejection and changes no Assignment row.
C18_NotCapableRejected ==
    [][\A req \in AssignRequests :
          ((\E e \in Named(req.employee) : req.section \notin CapableIn(e))
              /\ Assign(req)) =>
                 /\ Rejected(response')
                 /\ assignments' = assignments]_vars

\* C18 witness: the last reply is the rejection for a missing capability,
\* while an employee holds a concrete label.
C18_Witness ==
    /\ response.error = "Employee not allowed for this section"
    /\ Rejected(response)
    /\ \E e \in DOMAIN employees :
          HasRow(e, DaysPerWeek - 1) /\ Val(e, DaysPerWeek - 1) \notin Placeholders

\* ------------------------------------------------------------------------
\* C19: manual assign on approved leave
\* ------------------------------------------------------------------------
\* The employee has an approved leave request covering date d.
OnApprovedLeave(e, d) ==
    \E t \in timeoff :
        /\ t.name = employees[e].name
        /\ t.approved
        /\ t.from_date <= d
        /\ d <= t.to_date

\* The request resolves to a week, a known section the employee is
\* capable in, and a date.
WellFormed(req, e, d) ==
    /\ AssignWeek(req.week_id) # {}
    /\ req.section \in Sections
    /\ req.section \in CapableIn(e)
    /\ d \in ParseDateKey(req.date)

\* C19: a step of /assign for an employee and a date with a row, covered
\* by an approved leave request of the employee, leaves the row at its old
\* value or at TIME OFF and never at the requested value; when the request
\* is well-formed the row holds TIME OFF afterwards and the reply has
\* ok = false and code "timeoff".
C19_LeaveOverridesAssign ==
    [][\A req \in AssignRequests :
          \A e \in Named(req.employee) :
             \A d \in ParseDateKey(req.date) :
                (HasRow(e, d) /\ OnApprovedLeave(e, d) /\ Assign(req)) =>
                    LET after == assignments'[<< e, d >>].value IN
                    /\ after \in {Val(e, d), TIME_OFF_LABEL}
                    /\ after # req.value
                    /\ WellFormed(req, e, d) =>
                          /\ after = TIME_OFF_LABEL
                          /\ ~response'.ok
                          /\ response'.code = "timeoff"]_vars

\* C19 witness: the last reply is the override, and the employee on
\* approved leave holds TIME OFF on the last date of the baseline week
\* while the other employees' rows of the week are "Set".
C19_Witness ==
    /\ ~response.ok
    /\ response.code = "timeoff"
    /\ response.value = TIME_OFF_LABEL
    /\ \E e \in DOMAIN employees :
          /\ OnApprovedLeave(e, DaysPerWeek - 1)
          /\ Val(e, DaysPerWeek - 1) = TIME_OFF_LABEL
          /\ \A o \in DOMAIN employees \ {e} :
                \A d \in WeekDays(0) : Val(o, d) = "Set"

\* ------------------------------------------------------------------------
\* C20: invalid inputs
\* ------------------------------------------------------------------------
\* The request names a week (by a given id) that has no Week row.
UnknownWeek(req) ==
    req.week_id # {} /\ \A k \in weeks : k + 1 \notin req.week_id

\* The week whose rows a request with a known or absent week id addresses.
RequestWeeks(req) ==
    IF req.week_id = {} THEN {0} ELSE {k \in weeks : k + 1 \in req.week_id}

\* The request has an unknown week, an unknown section, an unknown
\* employee, a date key that is no date, or a date without row of the
\* employee in the week.
InvalidRequest(req) ==
    \/ UnknownWeek(req)
    \/ req.section \notin Sections
    \/ Named(req.employee) = {}
    \/ Len(req.date) # 3
    \/ \A e \in Named(req.employee) :
          \A d \in ParseDateKey(req.date) :
              \A k \in RequestWeeks(req) : ~(HasRow(e, d) /\ d \in WeekDays(k))

\* C20: a generation request for a week id without Week row, and a step of
\* /assign with an unknown week, unknown section, unknown employee,
\* malformed date or date without row in the week, leave every Assignment
\* row (value and dismissed flag) as it was.
C20_InvalidRejected ==
    [][/\ (\E b \in 1..(MaxBaseWeek + 1) : GenerateUnknownWeek(b)) =>
             assignments' = assignments
       /\ \A req \in AssignRequests :
             (InvalidRequest(req) /\ Assign(req)) =>
                 assignments' = assignments]_vars

\* ------------------------------------------------------------------------
\* Leave requests, week navigation, schedule reset and staff requests
\* ------------------------------------------------------------------------
MaxLeave == 2
MaxPrevWeek == 1

\* The id a new TimeOff row gets: one more than the largest id in use.
NextTimeoffId ==
    IF timeoff = {} THEN 1
    ELSE 1 + (CHOOSE i \in {t.id : t \in timeoff} :
                 \A t \in timeoff : t.id <= i)

\* The rows after the loop of /timeoff/new over the baseline week: TIME OFF
\* on the dates of the week inside the request, for each employee emps.
MarkTimeOff(asg, emps, from_d, to_d) ==
    [r \in DOMAIN asg |->
        IF r[1] \in emps /\ r[2] \in WeekDays(0) /\ from_d <= r[2] /\ r[2] <= to_d
        THEN [asg[r] EXCEPT !.value = TIME_OFF_LABEL]
        ELSE asg[r]]

\* The rows after the loops of /timeoff/toggle (to "Set" when the request
\* is no longer approved) and of /timeoff/delete: "Set" on the dates of
\* the baseline week inside the request that hold TIME OFF.
ClearTimeOff(asg, emps, from_d, to_d) ==
    [r \in DOMAIN asg |->
        IF /\ r[1] \in emps /\ r[2] \in WeekDays(0)
           /\ from_d <= r[2] /\ r[2] <= to_d
           /\ asg[r].value = TIME_OFF_LABEL
        THEN [asg[r] EXCEPT !.value = "Set"]
        ELSE asg[r]]

\* POST /timeoff/new with a name and two dates: a request that ends before
\* it starts is answered with an error; otherwise the row is stored, and an
\* approved request is written into the baseline week.
TimeoffNew(name, from_d, to_d, approved) ==
    /\ pc = "idle"
    /\ Cardinality(timeoff) < MaxLeave
    /\ IF to_d < from_d
       THEN UNCHANGED << timeoff, assignments >>
       ELSE /\ timeoff' = timeoff \cup
                  {[id |-> NextTimeoffId, name |-> name, from_date |-> from_d,
                    to_date |-> to_d, approved |-> approved]}
            /\ assignments' =
                  IF approved /\ 0 \in weeks
                  THEN MarkTimeOff(assignments, Named(name), from_d, to_d)
                  ELSE assignments
    /\ UNCHANGED << response, employees, employee_roles, employee_availability,
                    weeks, pc, base_week, week_offset, day, slot, pool,
                    weekVars, snapVars, log >>

\* POST /timeoff/toggle.  An unknown id is answered with 404.  For a known
\* id the approved flag and the rows of the baseline week are written and
\* committed; the handler then unpacks the 11 values of coverage_snapshot_db
\* into 10 names, which raises ValueError, so the request ends in the
\* server's reply to an uncaught exception (status 500) after the commit.
ToggleTimeoff(tid, approved) ==
    /\ pc = "idle"
    /\ 0 \in weeks
    /\ IF \A t \in timeoff : t.id # tid
       THEN /\ response' = ErrorReply(404, "Not found")
            /\ UNCHANGED << timeoff, assignments >>
       ELSE LET to == CHOOSE t \in timeoff : t.id = tid IN
            /\ timeoff' = (timeoff \ {to}) \cup {[to EXCEPT !.approved = approved]}
            /\ assignments' =
                  IF approved
                  THEN MarkTimeOff(assignments, Named(to.name),
                                   to.from_date, to.to_date)
                  ELSE ClearTimeOff(assignments, Named(to.name),
                                    to.from_date, to.to_date)
            /\ response' = ErrorReply(500, "ValueError")
    /\ UNCHANGED << employees, employee_roles, employee_availability,
                    weeks, pc, base_week, week_offset, day, slot, pool,
                    weekVars, snapVars, log >>

\* POST /timeoff/delete/<tid>
DeleteTimeoff(tid) ==
    /\ pc = "idle"
    /\ IF \A t \in timeoff : t.id # tid
       THEN UNCHANGED << timeoff, assignments >>
       ELSE LET to == CHOOSE t \in timeoff : t.id = tid IN
            /\ timeoff' = timeoff \ {to}
            /\ assignments' =
                  IF to.approved /\ 0 \in weeks
                  THEN ClearTimeOff(assignments, Named(to.name),
                                    to.from_date, to.to_date)
                  ELSE assignments
    /\ UNCHANGED << response, employees, employee_roles, employee_availability,
                    weeks, pc, base_week, week_offset, day, slot, pool,
                    weekVars, snapVars, log >>

\* /week/<id>/prev: unless the previous week exists it is created with a
\* "Set" row for every employee and date, and approved leave is
\* synchronised into it.
PrevWeek(k) ==
    /\ pc = "idle"
    /\ k \in weeks
    /\ k - 1 >= 0 - MaxPrevWeek
    /\ IF k - 1 \in weeks
       THEN UNCHANGED << weeks, assignments >>
       ELSE /\ weeks' = weeks \cup {k - 1}
            /\ assignments' =
                  SyncTimeoffToAssignments(
                      EnsureWeekAndAssignments(assignments, k - 1), k - 1)
    /\ UNCHANGED << response, employees, employee_roles, employee_availability,
                    timeoff, pc, base_week, week_offset, day, slot, pool,
                    weekVars, snapVars, log >>

\* /week/<id>/delete: the baseline week is reset to "Set" (the dismissed
\* flags stay), any other week is deleted with its rows.
DeleteWeekSchedule(k) ==
    /\ pc = "idle"
    /\ IF k \notin weeks
       THEN UNCHANGED << weeks, assignments >>
       ELSE IF k = 0
       THEN /\ weeks' = weeks
            /\ assignments' =
                  [r \in DOMAIN assignments |->
                      IF r[2] \in WeekDays(0)
                      THEN [assignments[r] EXCEPT !.value = "Set"]
                      ELSE assignments[r]]
       ELSE /\ weeks' = weeks \ {k}
            /\ assignments' =
                  [r \in {x \in DOMAIN assignments : x[2] \notin WeekDays(k)} |->
                      assignments[r]]
    /\ UNCHANGED << response, employees, employee_roles, employee_availability,
                    timeoff, pc, base_week, week_offset, day, slot, pool,
                    weekVars, snapVars, log >>

\* An add-employee request whose session commits before it is closed.
AdminAddEmployee_Committed(name, section) ==
    /\ pc = "idle"
    /\ Cardinality(DOMAIN employees) <= NumWorkers
    /\ IF name = "" \/ Named(name) # {} \/ section \notin Sections
       THEN UNCHANGED << employees, assignments >>
       ELSE LET eid == Cardinality(DOMAIN employees) + 1 IN
            /\ employees' =
                  [e \in DOMAIN employees \cup {eid} |->
                      IF e = eid
                      THEN [name |-> name, section |-> section,
                            preferred_shift |-> {}, seniority |-> {},
                            preferred_shifts_per_week |-> {},
                            max_shifts_per_week |-> {}]
                      ELSE employees[e]]
            /\ assignments' =
                  [r \in DOMAIN assignments \cup ({eid} \X WeekDays(0)) |->
                      IF r \in DOMAIN assignments THEN assignments[r]
                      ELSE [value |-> "Set", dismissed_timeoff |-> FALSE]]
    /\ UNCHANGED << response, employee_roles, employee_availability, timeoff,
                    weeks, pc, base_week, week_offset, day, slot, pool,
                    weekVars, snapVars, log >>

\* POST /admin/employees/add: the Employee row is flushed and the rows of
\* the baseline week are added inside "with SessionLocal() as s", but
\* s.commit() stands after the with block.  Leaving the block closes the
\* session, which rolls the open transaction back and drops the pending
\* rows, so the commit that follows has nothing to write.
AdminAddEmployee(name, section) ==
    /\ pc = "idle"
    /\ Cardinality(DOMAIN employees) <= NumWorkers
    /\ UNCHANGED vars

\* The weeks the requests of the model name.
LeaveWeeks == (0 - MaxPrevWeek)..MaxBaseWeek

NextLeave ==
    \/ \E n \in {Names[1], Names[3]} :
          \E rg \in {<< 6, 8 >>, << 5, 6 >>, << 6, 5 >>} :
              \E a \in BOOLEAN : TimeoffNew(n, rg[1], rg[2], a)
    \/ \E tid \in 1..MaxLeave : \E a \in BOOLEAN : ToggleTimeoff(tid, a)
    \/ \E tid \in 1..MaxLeave : DeleteTimeoff(tid)
    \/ \E k \in LeaveWeeks : PrevWeek(k)
    \/ \E k \in LeaveWeeks : NextWeek(k)
    \/ DeleteSchedule
    \/ \E k \in LeaveWeeks : DeleteWeekSchedule(k)
    \/ \E sec \in Sections \cup {"Pool"} :
          AdminAddEmployee(Names[NumWorkers + 1], sec)

SpecLeave == InitManual /\ [][NextLeave]_vars

\* Generation together with week navigation and the add-employee request.
NextStaff ==
    \/ Next
    \/ \E b \in (0 - MaxPrevWeek)..(0 - 1) : Generate(b)
    \/ \E k \in LeaveWeeks : PrevWeek(k)
    \/ \E sec \in Sections \cup {"Pool"} :
          AdminAddEmployee(Names[NumWorkers + 1], sec)

SpecStaff == InitManual /\ [][NextStaff]_vars

\* ------------------------------------------------------------------------
\* C21, C22: TIME OFF and approved leave
\* ------------------------------------------------------------------------
\* C21: in every reachable state, a row whose value is TIME OFF belongs to
\* an employee with an approved leave request covering the row's date.
C21_TimeOffHasLeave ==
    \A r \in DOMAIN assignments :
        assignments[r].value = TIME_OFF_LABEL =>
            r[1] \in DOMAIN employees /\ OnApprovedLeave(r[1], r[2])

\* C22: in every reachable state, for every week that has rows, the row of
\* an employee on a date covered by an approved leave request of that
\* employee holds TIME OFF.
C22_ApprovedLeaveSynced ==
    \A r \in DOMAIN assignments :
        (r[1] \in DOMAIN employees /\ OnApprovedLeave(r[1], r[2])) =>
            assignments[r].value = TIME_OFF_LABEL

InitAvail ==
    /\ employees =
          [i \in Workers |->
              LET prof == IF i = 1 THEN FdAllWeek
                          ELSE IF i = 2 THEN ShBreakfast ELSE NoAvailability
              IN [name |-> Names[i],
                  section |-> prof.section,
                  preferred_shift |-> prof.preferred_shift,
                  seniority |-> prof.seniority,
                  preferred_shifts_per_week |-> prof.preferred_shifts_per_week,
                  max_shifts_per_week |-> prof.max_shifts_per_week]]
    /\ employee_roles =
          {[employee_id |-> 2, section |-> sec] : sec \in ShBreakfast.secondary}
    /\ \E off \in SUBSET ({3, 4} \X {"AM", "PM"}) :
          employee_availability =
              {[employee_id |-> 1, day_of_week |-> av[1], shift_label |-> av[2],
                allowed |-> av \notin off] : av \in FdAllWeek.avail}
              \cup {[employee_id |-> 2, day_of_week |-> av[1],
                     shift_label |-> av[2], allowed |-> TRUE] :
                       av \in ShBreakfast.avail}
    /\ timeoff = {}
    /\ weeks = {0}
    /\ assignments =
          [r \in Workers \X WeekDays(0) |->
              [value |-> "Set", dismissed_timeoff |-> FALSE]]
    /\ pc = "idle"
    /\ base_week = 0
    /\ week_offset = 0
    /\ day = 0
    /\ slot = 1
    /\ pool = << >>
    /\ assigned_counts = EmptyMap
    /\ last_token_per_role = EmptyMap
    /\ reserved_fd_by_date = EmptyMap
    /\ avail_idx = EmptyMap
    /\ emp_info = EmptyMap
    /\ emp_name = EmptyMap
    /\ fd_emp_ids = << >>
    /\ bb_emp_ids = << >>
    /\ sh_emp_ids = << >>
    /\ log = NoSlot
    /\ response = NoResponse

SpecAvail == InitAvail /\ [][Next]_vars

InitRank ==
    /\ \E want \in {{}, {BB_PASS_SHIFTS[1]}} : \E sen2 \in {{}, {0}, {1}, {3}} :
       \E prefw \in {{}, {1}} : \E sen3 \in {{}, {2}} :
          employees =
              [i \in Workers |->
                  [name |-> Names[i],
                   section |-> "Breakfast Bar",
                   preferred_shift |-> IF i = 2 THEN want ELSE {},
                   seniority |-> IF i = 2 THEN sen2
                                 ELSE IF i = 3 THEN sen3 ELSE {},
                   preferred_shifts_per_week |-> IF i = 3 THEN prefw ELSE {},
                   max_shifts_per_week |-> {}]]
    /\ employee_roles = {}
    /\ employee_availability =
          {ea \in [employee_id : Workers, day_of_week : AllDays,
                    shift_label : Range(BB_PASS_SHIFTS), allowed : {TRUE}] :
              \/ ea.day_of_week \notin {Weekday(0), Weekday(1)}
              \/ ea.employee_id \notin {2, 3}
              \/ /\ ea.employee_id = 2
                 /\ ea.day_of_week = Weekday(0)
                 /\ ea.shift_label = BB_PASS_SHIFTS[3]}
    /\ timeoff = {}
    /\ weeks = {0}
    /\ assignments =
          [r \in Workers \X WeekDays(0) |->
              [value |-> "Set", dismissed_timeoff |-> FALSE]]
    /\ pc = "idle"
    /\ base_week = 0
    /\ week_offset = 0
    /\ day = 0
    /\ slot = 1
    /\ pool = << >>
    /\ assigned_counts = EmptyMap
    /\ last_token_per_role = EmptyMap
    /\ reserved_fd_by_date = EmptyMap
    /\ avail_idx = EmptyMap
    /\ emp_info = EmptyMap
    /\ emp_name = EmptyMap
    /\ fd_emp_ids = << >>
    /\ bb_emp_ids = << >>
    /\ sh_emp_ids = << >>
    /\ log = NoSlot
    /\ response = NoResponse

SpecRank == InitRank /\ [][Next]_vars

\* C25: in every slot of the three passes a picked worker passed the
\* weekly-maximum and rest filters, nobody is picked only if no candidate
\* passes them, and no unpicked candidate that passes them ranks strictly
\* before a picked one in the order (1) under the preferred weekly count,
\* (2) preferred shift equal to the slot's token, (3) last token in this
\* department this week equal to the slot's token, (4) seniority (the
\* larger stored number first, an employee without a number counting as 0),
\* (5) lower running count.
C25_PickIsMinimal ==
    [][(pc = "fd" \/ pc = "bb" \/ pc = "sh") =>
       (LET role == log'.role
            token == PrefToken(role, log'.label)
            passes(e) ==
                /\ RestOk(e, log'.dte, role, log'.label)
                /\ \A m \in EffectiveMaxForRole(emp_info, e, role) :
                      assigned_counts[e] < m
            under(e) == \E p \in emp_info[e].pref_per_week :
                            assigned_counts[e] < p
            wanted(e) == token \in emp_info[e].preferred_shift
            again(e) == << e, role >> \in DOMAIN last_token_per_role
                        /\ token \in last_token_per_role[<< e, role >>]
            rest == {c \in Range(log'.candidates) \ Range(log'.picks) :
                        passes(c)}
        IN /\ \A w \in Range(log'.picks) :
                 /\ w \in Range(log'.candidates)
                 /\ passes(w)
                 /\ \A c \in rest :
                       /\ under(c) => under(w)
                       /\ (under(c) = under(w) /\ wanted(c)) => wanted(w)
                       /\ (under(c) = under(w) /\ wanted(c) = wanted(w)
                           /\ again(c)) => again(w)
                       /\ (under(c) = under(w) /\ wanted(c) = wanted(w)
                           /\ again(c) = again(w))
                          => emp_info[w].seniority >= emp_info[c].seniority
                       /\ (under(c) = under(w) /\ wanted(c) = wanted(w)
                           /\ again(c) = again(w)
                           /\ emp_info[c].seniority = emp_info[w].seniority)
                          => assigned_counts[w] <= assigned_counts[c]
           /\ (log'.picks = << >> => rest = {}))
    ]_vars

\* A slot with three or more candidates whose single pick is not the first
\* candidate of the pool order.
C25_Witness ==
    /\ log.role = "Breakfast Bar"
    /\ Len(log.candidates) >= 3
    /\ Len(log.picks) = 1
    /\ log.picks[1] # log.candidates[1]

\* C26: in every slot, among the candidates that pass the filters and are
\* tied on the first three ranking criteria (quota, preferred-shift match,
\* continuity), a picked worker with a seniority rank has no higher numeric
\* rank than any unpicked one with a rank: the lower rank is selected first.
C26_LowerRankFirst ==
    [][(pc = "fd" \/ pc = "bb" \/ pc = "sh") =>
       (LET role == log'.role
            token == PrefToken(role, log'.label)
            passes(e) ==
                /\ RestOk(e, log'.dte, role, log'.label)
                /\ ~MaxReached(e, role)
            under(e) == \E p \in emp_info[e].pref_per_week :
                            assigned_counts[e] < p
            wanted(e) == token \in emp_info[e].preferred_shift
            again(e) == LastToken(e, role) = {token}
            ranked == {e \in DOMAIN employees : employees[e].seniority # {}}
        IN \A w \in Range(log'.picks) \cap ranked :
              \A c \in (Range(log'.candidates) \ Range(log'.picks)) \cap ranked :
                  (/\ passes(c)
                   /\ under(c) = under(w)
                   /\ wanted(c) = wanted(w)
                   /\ again(c) = again(w))
                  => TheValue(employees[w].seniority)
                         <= TheValue(employees[c].seniority))
    ]_vars

\* C27: in every slot, a worker without a seniority rank who passes the
\* filters is a candidate like any other (nobody is picked only if no
\* candidate passes), and among the candidates tied on the first three
\* ranking criteria a worker without a rank is never picked while a worker
\* with a rank is left unpicked.
C27_UnrankedLast ==
    [][(pc = "fd" \/ pc = "bb" \/ pc = "sh") =>
       (LET role == log'.role
            token == PrefToken(role, log'.label)
            passes(e) ==
                /\ RestOk(e, log'.dte, role, log'.label)
                /\ ~MaxReached(e, role)
            under(e) == \E p \in emp_info[e].pref_per_week :
                            assigned_counts[e] < p
            wanted(e) == token \in emp_info[e].preferred_shift
            again(e) == LastToken(e, role) = {token}
            ranked == {e \in DOMAIN employees : employees[e].seniority # {}}
            left == Range(log'.candidates) \ Range(log'.picks)
        IN /\ log'.picks = << >> => \A c \in left \ ranked : ~passes(c)
           /\ \A w \in Range(log'.picks) \ ranked :
                 \A c \in left \cap ranked :
                     ~(/\ passes(c)
                       /\ under(c) = under(w)
                       /\ wanted(c) = wanted(w)
                       /\ again(c) = again(w)))
    ]_vars

\* ------------------------------------------------------------------------
\* Dismissed flags
\* ------------------------------------------------------------------------
\* Generation after a leave request of the Shuttle worker Abdi for Tuesday
\* 2025-09-23 and Wednesday 2025-09-24 was filed.
NextDismiss ==
    \/ Next
    \/ \E a \in BOOLEAN : TimeoffNew(Names[3], 5, 6, a)

SpecDismiss == InitManual /\ [][NextDismiss]_vars

\* C28: a step of the run sets the dismissed flag of a worker's row only if
\* the worker has a leave request covering the date and, for some slot of
\* that date in a department the worker is capable in, passes the
\* availability check and the rest rule of that slot.
C28_DismissedOnlyIfEligible ==
    [][\A r \in DOMAIN assignments :
          (/\ r \in DOMAIN assignments'
           /\ ~assignments[r].dismissed_timeoff
           /\ assignments'[r].dismissed_timeoff)
          => /\ HasAnyTimeoff(NameOf(r[1]), r[2])
             /\ \E sec \in CapableIn(r[1]) :
                   \E label \in (IF sec = "Front Desk"
                                 THEN {"AM", "PM", "Audit"}
                                 ELSE IF sec = "Breakfast Bar"
                                 THEN Range(BB_PASS_SHIFTS)
                                 ELSE Range(SH_PASS_VARIANTS)) :
                       /\ IsAvailable(r[1], sec, label, r[2], avail_idx)
                       /\ RestOk(r[1], r[2], sec, label)
    ]_vars

\* C29: after a generation run the dismissed flag is set on a row only
\* where a leave request covers the date and no approved leave request of
\* that worker covers it.
C29_DismissedOnlyUnapproved ==
    pc = "done" =>
        \A r \in DOMAIN assignments :
            assignments[r].dismissed_timeoff =>
                /\ r[1] \in DOMAIN employees
                /\ \E t \in timeoff :
                      /\ t.name = employees[r[1]].name
                      /\ t.from_date <= r[2]
                      /\ r[2] <= t.to_date
                /\ \A t \in timeoff :
                      (/\ t.name = employees[r[1]].name
                       /\ t.from_date <= r[2]
                       /\ r[2] <= t.to_date) => ~t.approved

\* ------------------------------------------------------------------------
\* Regeneration over manual overrides and stale flags
\* ------------------------------------------------------------------------
\* Generation, a manual override that gives the Shuttle worker Abdi an AM
\* shift on Wednesday 2025-09-24 (Abdi is available for Crew only on
\* Wednesdays), and the deletion of the leave request on file.
NextRegen ==
    \/ Next
    \/ Assign([section |-> "Shuttle", employee |-> Names[3],
               date |-> AssignDateKey, value |-> SH_PASS_VARIANTS[1],
               week_id |-> {}])
    \/ DeleteTimeoff(1)

SpecRegen == InitManual /\ [][NextRegen]_vars

\* C30: the reset step of each week of a run leaves every row of that week
\* at "Set" with the dismissed flag cleared, and when the run ends every
\* concrete shift of the horizon is one this run could give (a label of a
\* department the worker is capable in, for which the run's availability
\* index has an entry, on a date without leave request) and every set
\* dismissed flag of the horizon is on a date with a leave request on file:
\* nothing of an earlier run or a manual override is left.
C30_FullRegeneration ==
    [][/\ (pc = "reset") =>
            \A r \in DOMAIN assignments' :
                r[2] \in WeekDays(base_week + week_offset) =>
                    /\ assignments'[r].value = "Set"
                    /\ ~assignments'[r].dismissed_timeoff
       /\ (pc' = "done") =>
            \A r \in DOMAIN assignments' :
                (r[2] \div DaysPerWeek) \in
                    base_week'..(base_week' + HorizonWeeks - 1) =>
                    /\ assignments'[r].value \notin {"Set", TIME_OFF_LABEL} =>
                          /\ \E sec \in CapableIn(r[1]) :
                                /\ assignments'[r].value
                                      \in Range(SectionShifts(sec))
                                /\ IsAvailable(r[1], sec, assignments'[r].value,
                                               r[2], avail_idx')
                          /\ ~HasAnyTimeoff(employees[r[1]].name, r[2])
                    /\ assignments'[r].dismissed_timeoff =>
                          HasAnyTimeoff(employees[r[1]].name, r[2])
    ]_vars

\* A run from the baseline week has ended after the manual override was
\* accepted, and Abdi's row of 2025-09-24 no longer holds the override.
C30_Witness ==
    /\ pc = "done"
    /\ base_week = 0
    /\ response.status = 200
    /\ response.ok
    /\ assignments[<< 3, 6 >>].value # SH_PASS_VARIANTS[1]

\* ------------------------------------------------------------------------
\* Repeated generation
\* ------------------------------------------------------------------------
\* Generation requests for the baseline week, one after another, over the
\* staff of InitManual with a leave request of Cindy on file; employees,
\* availability and leave requests never change and no row exists for the
\* day before the horizon.
NextTwice ==
    \/ Generate(0)
    \/ ResetWeek
    \/ FrontDeskSlot
    \/ ReserveFrontDesk
    \/ BreakfastBarSlot
    \/ ShuttleSlot
    \/ SyncWeek
    \/ GenerateReturn

InitTwice ==
    /\ InitManual
    /\ \E t \in timeoff : t.name = Names[1]

SpecTwice == InitTwice /\ [][NextTwice]_vars

C32_GenerationFrame ==
    [][(pc # "idle" \/ pc' # "idle") =>
          (LET horizon == base_week'..(base_week' + HorizonWeeks - 1)
           IN /\ employees' = employees
              /\ employee_roles' = employee_roles
              /\ employee_availability' = employee_availability
              /\ timeoff' = timeoff
              /\ weeks \subseteq weeks'
              /\ weeks' \ weeks \subseteq horizon
              /\ DOMAIN assignments \subseteq DOMAIN assignments'
              /\ \A r \in DOMAIN assignments' :
                    (r[2] \div DaysPerWeek) \notin horizon =>
                        /\ r \in DOMAIN assignments
                        /\ assignments'[r] = assignments[r])
    ]_vars

\* A run from week 1 has ended while the baseline week, outside its
\* horizon, holds shifts of an earlier run and the week before the baseline
\* week exists.
C32_Witness ==
    /\ pc = "done"
    /\ base_week = 1
    /\ 0 - 1 \in weeks
    /\ \E e \in DOMAIN employees :
          \E d \in WeekDays(0) : HasRow(e, d) /\ Val(e, d) \notin Placeholders
    /\ \E e \in DOMAIN employees :
          \E d \in WeekDays(HorizonWeeks) :
              HasRow(e, d) /\ Val(e, d) \notin Placeholders

\* ------------------------------------------------------------------------
\* Coverage of a generated schedule
\* ------------------------------------------------------------------------
\* C33: when a run has ended, on every date of the horizon at most 2
\* workers hold a label of each Front Desk variant, two holders of a variant
\* hold different stagger labels and the duplicate-stagger flag of the
\* coverage report is false, and at most 1 worker holds each Breakfast Bar
\* label and each Shuttle variant.
C33_NoCoverageAnomaly ==
    pc = "done" =>
        \A d \in HorizonDates :
            LET holders(labels) ==
                    {e \in DOMAIN employees :
                        HasRow(e, d) /\ Val(e, d) \in labels}
            IN /\ \A v \in {"AM", "PM", "Audit"} :
                     /\ Cardinality(holders(FdLabelsOf(v))) <= FrontDeskPerVariant
                     /\ \A x, y \in holders(FdLabelsOf(v)) :
                           x # y => Val(x, d) # Val(y, d)
               /\ ~CoverageSnapshotDb(assignments, WeekOf(d)).fd_duplicates[d]
               /\ \A l \in Range(BB_PASS_SHIFTS) \cup Range(SH_PASS_VARIANTS) :
                     Cardinality(holders({l})) <= 1

\* A run has ended with two holders of one Front Desk variant, a Breakfast
\* Bar holder and a Shuttle holder on dates of the horizon.
C33_Witness ==
    /\ pc = "done"
    /\ \E d \in HorizonDates : \E v \in {"AM", "PM", "Audit"} :
          Cardinality({e \in DOMAIN employees :
              HasRow(e, d) /\ Val(e, d) \in FdLabelsOf(v)}) = 2
    /\ \E d \in HorizonDates : \E e \in DOMAIN employees :
          HasRow(e, d) /\ Val(e, d) \in BbConcrete
    /\ \E d \in HorizonDates : \E e \in DOMAIN employees :
          HasRow(e, d) /\ Val(e, d) \in ShConcrete

\* ------------------------------------------------------------------------
\* C34: the double-booked report is always empty
\* ------------------------------------------------------------------------
\* C34: in every state the double-booked report of every week names nobody,
\* and two different label lists of BREAKFAST_SHIFTS, FRONT_DESK_SHIFTS and
\* SHUTTLE_SHIFTS have only "Set" and TIME OFF in common.
C34_NobodyDoubleBooked ==
    /\ \A k \in weeks : DoubleBookedSnapshot(assignments, k) = {}
    /\ \A i, j \in 1..3 :
          LET lists == << BREAKFAST_SHIFTS, FRONT_DESK_SHIFTS, SHUTTLE_SHIFTS >>
          IN i # j =>
                Range(lists[i]) \cap Range(lists[j]) = {"Set", TIME_OFF_LABEL}

\* Every employee with more than one department holds a concrete label on
\* the last date of the baseline week, after a manual assign was accepted.
C34_Witness ==
    /\ response.ok
    /\ \E e \in DOMAIN employees : Cardinality(CapableIn(e)) > 1
    /\ \A e \in DOMAIN employees :
          Cardinality(CapableIn(e)) > 1 =>
              /\ HasRow(e, DaysPerWeek - 1)
              /\ Val(e, DaysPerWeek - 1) \notin Placeholders

\* ------------------------------------------------------------------------
\* Rest rule across the Front Desk and Shuttle passes
\* ------------------------------------------------------------------------
\* The database of init_db_once for a staff that covers the Front Desk on
\* the first date: two workers available for each Front Desk variant on
\* Thursdays, and a Shuttle worker with Front Desk as second section who is
\* available for the Shuttle PM variant on Thursdays and for the Front Desk
\* AM variant on Fridays.
InitRest ==
    /\ employees =
          [i \in 1..7 |->
              [name |-> << "Cindy", "KC", "Emilyn", "Christian", "Troy",
                           "Brian", "Abdi" >>[i],
               section |-> IF i = 7 THEN "Shuttle" ELSE "Front Desk",
               preferred_shift |-> {}, seniority |-> {},
               preferred_shifts_per_week |-> {}, max_shifts_per_week |-> {}]]
    /\ employee_roles = {[employee_id |-> 7, section |-> "Front Desk"]}
    /\ employee_availability =
          {[employee_id |-> i, day_of_week |-> Weekday(0),
            shift_label |-> << "AM", "AM", "PM", "PM", "Audit", "Audit" >>[i],
            allowed |-> TRUE] : i \in 1..6}
          \cup {[employee_id |-> 7, day_of_week |-> Weekday(0),
                 shift_label |-> SH_PASS_VARIANTS[3], allowed |-> TRUE],
                [employee_id |-> 7, day_of_week |-> Weekday(1),
                 shift_label |-> "AM", allowed |-> TRUE]}
    /\ timeoff = {}
    /\ weeks = {0}
    /\ assignments =
          [r \in (1..7) \X WeekDays(0) |->
              [value |-> "Set", dismissed_timeoff |-> FALSE]]
    /\ pc = "idle"
    /\ base_week = 0
    /\ week_offset = 0
    /\ day = 0
    /\ slot = 1
    /\ pool = << >>
    /\ assigned_counts = EmptyMap
    /\ last_token_per_role = EmptyMap
    /\ reserved_fd_by_date = EmptyMap
    /\ avail_idx = EmptyMap
    /\ emp_info = EmptyMap
    /\ emp_name = EmptyMap
    /\ fd_emp_ids = << >>
    /\ bb_emp_ids = << >>
    /\ sh_emp_ids = << >>
    /\ log = NoSlot
    /\ response = NoResponse

SpecRest == InitRest /\ [][NextTwice]_vars

\* C35: when a run has ended, no worker holds a Front Desk AM label on a
\* date of the horizon while the worker's value of the day before begins
\* with "PM", be it a Front Desk or a Shuttle label.
C35_NoAmAfterPm ==
    pc = "done" =>
        \A r \in DOMAIN assignments :
            (/\ r[2] \in HorizonDates
             /\ assignments[r].value \in FdLabelsOf("AM")
             /\ << r[1], r[2] - 1 >> \in DOMAIN assignments)
            => ~StartsWith(assignments[<< r[1], r[2] - 1 >>].value, "PM")

\* ------------------------------------------------------------------------
\* Role changes
\* ------------------------------------------------------------------------
\* POST /admin/employees/<eid>/role with the form field role.  An empty
\* role, an unknown employee and an unknown section redirect without a
\* write.  Without the baseline week the handler fails on week.start_date
\* before its commit and the session rolls back.  Otherwise the primary
\* section is replaced, the employee's rows of the baseline week go back to
\* "Set" and approved leave is written again on the baseline week.
ChangeEmployeeRole(eid, role) ==
    /\ pc = "idle"
    /\ IF \/ role = ""
          \/ eid \notin DOMAIN employees
          \/ role \notin Sections
          \/ 0 \notin weeks
       THEN UNCHANGED << employees, assignments >>
       ELSE /\ employees' = [employees EXCEPT ![eid].section = role]
            /\ assignments' =
                  SyncTimeoffToAssignments(
                      [r \in DOMAIN assignments |->
                          IF r[1] = eid /\ r[2] \in WeekDays(0)
                          THEN [assignments[r] EXCEPT !.value = "Set"]
                          ELSE assignments[r]], 0)
    /\ UNCHANGED << employee_roles, employee_availability, timeoff, weeks,
                    response, pc, base_week, week_offset, day, slot, pool,
                    weekVars, snapVars, log >>

\* POST /admin/employees/<eid>/roles with the selected secondary sections:
\* the employee's EmployeeRole rows are replaced by the selection without
\* the primary section.  No Assignment row is touched.
ManageEmployeeRoles(eid, selected) ==
    /\ pc = "idle"
    /\ IF eid \notin DOMAIN employees
       THEN UNCHANGED employee_roles
       ELSE employee_roles' =
               {er \in employee_roles : er.employee_id # eid}
               \cup {[employee_id |-> eid, section |-> sec] :
                        sec \in selected \ {employees[eid].section}}
    /\ UNCHANGED << employees, employee_availability, timeoff, weeks,
                    assignments, response, pc, base_week, week_offset, day,
                    slot, pool, weekVars, snapVars, log >>

\* Generation of the baseline horizon, manual assignment for the first
\* employee, and role changes of the first employee.
NextRoles ==
    \/ NextTwice
    \/ \E req \in {q \in AssignRequests :
                      q.employee = Names[1] /\ q.week_id = {}} : Assign(req)
    \/ \E eid \in {1, NumWorkers + 1}, role \in {"Front Desk", "Shuttle", "Pool", ""} :
          ChangeEmployeeRole(eid, role)
    \/ \E eid \in {1, NumWorkers + 1},
          selected \in {{}, {"Breakfast Bar"}, {"Front Desk", "Shuttle"}} :
          ManageEmployeeRoles(eid, selected)

SpecRoles == InitManual /\ [][NextRoles]_vars

\* C36: every Assignment value is "Set", TIME OFF or a shift label of a
\* department in which the row's worker has primary or secondary capability
\* at that moment.
C36_ValueOfOwnDepartment ==
    \A r \in DOMAIN assignments :
        r[1] \in DOMAIN employees =>
            \/ assignments[r].value \in {"Set", TIME_OFF_LABEL}
            \/ \E sec \in Sections :
                  /\ \/ employees[r[1]].section = sec
                     \/ [employee_id |-> r[1], section |-> sec] \in employee_roles
                  /\ assignments[r].value \in Range(SectionShifts(sec))

\* ------------------------------------------------------------------------
\* Manager meals
\* ------------------------------------------------------------------------
\* manager_meals(week_id) for an existing week k, as a function of the
\* Assignment rows asg: for every date of the week the name chosen for AM,
\* PM and Audit ({} for none).  by_day collects the names of the rows whose
\* value is not a placeholder and whose _fd_variant is AM, PM or Audit; the
\* choice is the first name of SENIORITY_ORDER among them, else the name of
\* the first row (rows are created employee by employee).  AM is "JoJo" from
\* Sunday to Thursday.  manager_meals_text repeats the same selection.
ManagerMeals(asg, k) ==
    LET ids(d, variant) ==
            {e \in DOMAIN employees :
                /\ << e, d >> \in DOMAIN asg
                /\ asg[<< e, d >>].value \notin {"", "Set", TIME_OFF_LABEL}
                /\ FdVariant(asg[<< e, d >>].value) = variant}
        pick(d, variant) ==
            LET names == {employees[e].name : e \in ids(d, variant)}
                senior == {i \in 1..Len(SENIORITY_ORDER) :
                              SENIORITY_ORDER[i] \in names}
            IN IF senior # {}
               THEN {SENIORITY_ORDER[CHOOSE i \in senior :
                                        \A j \in senior : i <= j]}
               ELSE IF names = {} THEN {}
               ELSE {employees[CHOOSE e \in ids(d, variant) :
                                  \A f \in ids(d, variant) : e <= f].name}
    IN [d \in WeekDays(k) |->
           [AM |-> IF Weekday(d) \in {6, 0, 1, 2, 3} THEN {"JoJo"}
                   ELSE pick(d, "AM"),
            PM |-> pick(d, "PM"),
            Audit |-> pick(d, "Audit")]]

\* C37: in the manager-meal list of every week, the worker named for PM or
\* Audit of a date, and for AM on a Friday or Saturday, holds a Front Desk
\* label of that variant on that date; a worker holding a Shuttle label is
\* not named.
C37_MealsFromFrontDesk ==
    \A k \in weeks : \A d \in WeekDays(k) :
        LET m == ManagerMeals(assignments, k)[d]
            holds(n, variant) ==
                \E e \in DOMAIN employees :
                    /\ employees[e].name = n
                    /\ << e, d >> \in DOMAIN assignments
                    /\ assignments[<< e, d >>].value \in FdLabelsOf(variant)
        IN /\ \A n \in m.PM : holds(n, "PM")
           /\ \A n \in m.Audit : holds(n, "Audit")
           /\ Weekday(d) \in {4, 5} => \A n \in m.AM : holds(n, "AM")

\* C38: a /timeoff/toggle request for an existing leave request ends in a
\* success reply (status 200, ok); it does not end in an uncaught error
\* after the rows have been written and committed.
C38_ToggleSucceeds ==
    [][\A tid \in 1..MaxLeave : \A a \in BOOLEAN :
          (ToggleTimeoff(tid, a) /\ \E t \in timeoff : t.id = tid)
          => (response'.ok /\ response'.status = 200)]_vars

\* ------------------------------------------------------------------------
\* Requests that arrive during a generation run
\* ------------------------------------------------------------------------
\* The server started by app.run handles each request in a thread of its
\* own, and the handlers share no lock.  generate_4_week_schedule commits
\* after the reset of every week; until its first write of the week it
\* holds no transaction, so /assign from another thread can read, write and
\* commit at that point.
AssignDuringRun(req) ==
    /\ pc = "fd"
    /\ day = 0
    /\ slot = 1
    /\ AssignHandler(req)

\* A generation of the baseline horizon, with /assign requests of the
\* baseline week for employees without availability entry on the weekday
\* of the request (rows the run itself never gives a shift).
NextConcurrent ==
    \/ NextTwice
    \/ \E req \in {q \in AssignRequests :
                      /\ q.week_id = {}
                      /\ q.date = AssignDateKey
                      /\ \A ea \in employee_availability :
                            ea.employee_id \in Named(q.employee)
                            => ea.day_of_week # Weekday(DaysPerWeek - 1)} :
          AssignDuringRun(req)

SpecConcurrent == InitManual /\ [][NextConcurrent]_vars

\* C39: when the passes of a week have run, the run's count of every
\* employee equals the number of shifts stored for the employee in that
\* week, as it does when no other request is handled during the run.
C39_CountsMatchStored ==
    pc = "sync" =>
        \A e \in DOMAIN assigned_counts :
            assigned_counts[e] =
                Cardinality({d \in WeekDays(base_week + week_offset) :
                                /\ << e, d >> \in DOMAIN assignments
                                /\ assignments[<< e, d >>].value
                                      \notin {"Set", TIME_OFF_LABEL}})

====
